---- MODULE Spec2Model ----
(***************************************************************************)
(* A model of CoreConvert's data conversion core (src/utils/dataUtils.ts): *)
(* the delimited, XML and SQL codecs and the convertDataFile pipeline.     *)
(*                                                                         *)
(* Text is a sequence of one-character strings.  A JavaScript value is a   *)
(* tagged record: Null, Undefined, Str(s), Num(n), Bool(b), List(xs) and   *)
(* Rec(kv), where kv is the object's properties in enumeration order.      *)
(* Numbers are the integers; every other part of a conversion is computed  *)
(* character by character, as the source computes it.                      *)
(***************************************************************************)
EXTENDS Integers, Sequences, FiniteSets, TLC

VARIABLES
    pc,       \* position of the call under way
    delim,    \* the delimiter argument of parseCSV / toCSV
    table,    \* the tableName argument of toSQL (<<>> when none)
    data,     \* the value handed to a serializer (Undefined when none)
    dump,     \* the statements an SQL text was written from (<<>> when none)
    text,     \* the text a serializer returned or a parser is given
    parsed,   \* the value a parser returned (Undefined before it ran)
    file,     \* convertDataFile: the File argument, [name, text]
    type,     \* convertDataFile: the ConversionType argument
    result,   \* convertDataFile: the resolved ConversionResult, or NoResult
    error,    \* convertDataFile: the message of the rejection, or <<>>
    calls,    \* convertDataFile: the parsers and serializers invoked, in order
    pos,      \* parseSQLValuesString: the index i of the loop (0 when no scan)
    scan,     \* parseSQLValuesString: its local variables
    files,    \* App: the state set by setFiles, a sequence of file items
    filesRef, \* App: filesRef.current, the items of the last committed render
    nextId,   \* App: the number of items created so far (ids are never reused)
    tasks,    \* App: the processConversion calls made, pending or settled
    version,  \* App: which of the two copies of processConversion runs
    loadedScripts,   \* script loader: the set of keys that have loaded
    loadingScripts,  \* script loader: key -> the promise of the load in flight
    head,     \* script loader: the script elements appended to document.head
    returned  \* script loader: the key and the promise of the last loadScript call

vars == <<pc, delim, table, data, dump, text, parsed, file, type, result, error, calls,
          pos, scan, files, filesRef, nextId, tasks, version,
          loadedScripts, loadingScripts, head, returned>>

(***************************************************************************)
(* Bounds of the model.                                                    *)
(***************************************************************************)
MaxLineLen == 5
MaxValLen == 2
MaxXmlTokens == 4
MaxSqlTail == 5
MaxScanLen == 5
MaxFiles == 1
MaxCalls == 2
MaxScripts == 3

(***************************************************************************)
(* Characters and JavaScript string primitives.                            *)
(***************************************************************************)
DQ == "\""
SQ == "'"
\* the backquote character (a TLA+ string cannot hold it: it is written as a word)
BQ == "BACKQUOTE"
NL == "\n"
CR == "\r"
TAB == "\t"
SP == " "
COMMA == ","

Digits == <<"0", "1", "2", "3", "4", "5", "6", "7", "8", "9">>
DigitSet == {Digits[i] : i \in 1..10}
LowerLetters == <<"a", "b", "c", "d", "e", "f", "g", "h", "i", "j", "k", "l", "m",
                  "n", "o", "p", "q", "r", "s", "t", "u", "v", "w", "x", "y", "z">>
UpperLetters == <<"A", "B", "C", "D", "E", "F", "G", "H", "I", "J", "K", "L", "M",
                  "N", "O", "P", "Q", "R", "S", "T", "U", "V", "W", "X", "Y", "Z">>
LowerSet == {LowerLetters[i] : i \in 1..26}
UpperSet == {UpperLetters[i] : i \in 1..26}

Min(S) == CHOOSE x \in S : \A y \in S : x <= y
Max(S) == CHOOSE x \in S : \A y \in S : x >= y

\* \s of a regular expression, and the white space String.prototype.trim removes
IsSpace(c) == c \in {SP, TAB, NL, CR}
\* the characters "." of a regular expression does not match
IsLineTerminator(c) == c \in {NL, CR}
IsDigit(c) == c \in DigitSet
\* \w of a regular expression
IsWordChar(c) == c \in LowerSet \cup UpperSet \cup DigitSet \cup {"_"}

\* String.prototype.toUpperCase, one character
toUpperChar(c) ==
    IF c \in LowerSet
    THEN UpperLetters[CHOOSE i \in 1..26 : LowerLetters[i] = c]
    ELSE c
toUpperCase(s) == [i \in 1..Len(s) |-> toUpperChar(s[i])]

DigitVal(c) == (CHOOSE i \in 1..10 : Digits[i] = c) - 1

RECURSIVE TrimStart(_)
TrimStart(s) == IF s # <<>> /\ IsSpace(Head(s)) THEN TrimStart(Tail(s)) ELSE s
RECURSIVE TrimEnd(_)
TrimEnd(s) ==
    IF s # <<>> /\ IsSpace(s[Len(s)]) THEN TrimEnd(SubSeq(s, 1, Len(s) - 1)) ELSE s
\* String.prototype.trim
trim(s) == TrimEnd(TrimStart(s))

startsWith(s, p) == Len(s) >= Len(p) /\ SubSeq(s, 1, Len(p)) = p
endsWith(s, p) == Len(s) >= Len(p) /\ SubSeq(s, Len(s) - Len(p) + 1, Len(s)) = p
\* whether p occurs in s at index i
occursAt(s, p, i) == i >= 1 /\ i + Len(p) - 1 <= Len(s) /\ SubSeq(s, i, i + Len(p) - 1) = p
\* the number of (possibly overlapping) occurrences of p in s
Occurs(txt, w) == \E i \in 1..Len(txt) : occursAt(txt, w, i)
CountOccurrences(s, p) == Cardinality({i \in 1..Len(s) : occursAt(s, p, i)})

RECURSIVE Concat(_)
Concat(ss) == IF ss = <<>> THEN <<>> ELSE Head(ss) \o Concat(Tail(ss))

\* Array.prototype.join
RECURSIVE join(_, _)
join(ss, sep) ==
    IF ss = <<>> THEN <<>>
    ELSE IF Len(ss) = 1 THEN ss[1]
    ELSE ss[1] \o sep \o join(Tail(ss), sep)

\* String.prototype.split with a one-character separator
RECURSIVE SplitAcc(_, _, _, _)
SplitAcc(s, d, i, cur) ==
    IF i > Len(s) THEN <<cur>>
    ELSE IF s[i] = d THEN <<cur>> \o SplitAcc(s, d, i + 1, <<>>)
    ELSE SplitAcc(s, d, i + 1, Append(cur, s[i]))
split(s, d) == SplitAcc(s, d, 1, <<>>)

\* String.prototype.replace with a one-character global pattern
RECURSIVE replaceChar(_, _, _)
replaceChar(s, c, by) ==
    IF s = <<>> THEN <<>>
    ELSE (IF Head(s) = c THEN by ELSE <<Head(s)>>) \o replaceChar(Tail(s), c, by)

\* Number to String, for the integers
RECURSIVE NatToStr(_)
NatToStr(n) == IF n < 10 THEN <<Digits[n + 1]>> ELSE NatToStr(n \div 10) \o <<Digits[(n % 10) + 1]>>
NumToStr(n) == IF n < 0 THEN <<"-">> \o NatToStr(-n) ELSE NatToStr(n)

RECURSIVE StrToNat(_)
StrToNat(s) == IF s = <<>> THEN 0 ELSE 10 * StrToNat(SubSeq(s, 1, Len(s) - 1)) + DigitVal(s[Len(s)])

(***************************************************************************)
(* JavaScript values.                                                      *)
(***************************************************************************)
Undefined == [t |-> "undefined"]
Null == [t |-> "null"]
Str(s) == [t |-> "str", s |-> s]
Num(n) == [t |-> "num", n |-> n]
Bool(b) == [t |-> "bool", b |-> b]
List(xs) == [t |-> "list", xs |-> xs]
Rec(kv) == [t |-> "rec", kv |-> kv]
\* the outcome of a call that threw
Thrown(what) == [t |-> "throw", what |-> what]

IsStr(v) == v.t = "str"
IsList(v) == v.t = "list"
IsRec(v) == v.t = "rec"

\* String(v): the primitives by their text form, an array as its elements
\* joined by "," (null and undefined elements as ""), any other object as
\* "[object Object]"
RECURSIVE String(_)
String(v) ==
    CASE v.t = "str" -> v.s
      [] v.t = "num" -> NumToStr(v.n)
      [] v.t = "bool" -> IF v.b THEN <<"t", "r", "u", "e">> ELSE <<"f", "a", "l", "s", "e">>
      [] v.t = "null" -> <<"n", "u", "l", "l">>
      [] v.t = "undefined" -> <<"u", "n", "d", "e", "f", "i", "n", "e", "d">>
      [] v.t = "list" ->
            join([i \in 1..Len(v.xs) |->
                    IF v.xs[i].t \in {"null", "undefined"} THEN <<>> ELSE String(v.xs[i])],
                 <<COMMA>>)
      [] v.t = "rec" -> <<"[", "o", "b", "j", "e", "c", "t", " ", "O", "b", "j", "e", "c", "t", "]">>

\* A property key that is a canonical array index: such keys are enumerated
\* first, in ascending numeric order, before the other keys in insertion order.
IsArrayIndex(k) ==
    /\ k # <<>>
    /\ \A i \in 1..Len(k) : IsDigit(k[i])
    /\ (Len(k) = 1 \/ k[1] # "0")

Keys(kv) == [i \in 1..Len(kv) |-> kv[i].k]
hasKey(kv, k) == \E i \in 1..Len(kv) : kv[i].k = k
\* obj[k]; Undefined when the property is absent
getProp(kv, k) ==
    IF hasKey(kv, k) THEN kv[CHOOSE i \in 1..Len(kv) : kv[i].k = k].v ELSE Undefined

\* obj[k] = v
setProp(kv, k, v) ==
    IF hasKey(kv, k)
    THEN [i \in 1..Len(kv) |-> IF kv[i].k = k THEN [k |-> k, v |-> v] ELSE kv[i]]
    ELSE IF IsArrayIndex(k)
    THEN LET before == {i \in 1..Len(kv) :
                            IsArrayIndex(kv[i].k) /\ StrToNat(kv[i].k) < StrToNat(k)}
             n == Cardinality(before)
         IN SubSeq(kv, 1, n) \o <<[k |-> k, v |-> v]>> \o SubSeq(kv, n + 1, Len(kv))
    ELSE Append(kv, [k |-> k, v |-> v])

\* Object.keys(v) of a value that is neither null nor undefined
objectKeys(v) ==
    CASE v.t = "rec" -> Keys(v.kv)
      [] v.t = "list" -> [i \in 1..Len(v.xs) |-> NumToStr(i - 1)]
      [] v.t = "str" -> [i \in 1..Len(v.s) |-> NumToStr(i - 1)]
      [] OTHER -> <<>>

\* v[k] of a value that is neither null nor undefined
getMember(v, k) ==
    CASE v.t = "rec" -> getProp(v.kv, k)
      [] v.t = "list" ->
            IF IsArrayIndex(k) /\ StrToNat(k) < Len(v.xs) THEN v.xs[StrToNat(k) + 1] ELSE Undefined
      [] v.t = "str" ->
            IF IsArrayIndex(k) /\ StrToNat(k) < Len(v.s) THEN Str(<<v.s[StrToNat(k) + 1]>>) ELSE Undefined
      [] OTHER -> Undefined

\* Array.from(new Set(xs)): the distinct elements in first-seen order
RECURSIVE uniq(_)
uniq(xs) ==
    IF xs = <<>> THEN <<>>
    ELSE LET init == uniq(SubSeq(xs, 1, Len(xs) - 1))
             last == xs[Len(xs)]
         IN IF \E i \in 1..Len(init) : init[i] = last THEN init ELSE Append(init, last)

(***************************************************************************)
(* The delimited codec: parseCSV and toCSV.                                *)
(***************************************************************************)

\* text.split(/\r?\n/): the pieces between line feeds, a carriage return right
\* before a line feed being part of the separator
splitLines(s) ==
    LET pieces == split(s, NL)
    IN [i \in 1..Len(pieces) |->
          IF i < Len(pieces) /\ pieces[i] # <<>> /\ pieces[i][Len(pieces[i])] = CR
          THEN SubSeq(pieces[i], 1, Len(pieces[i]) - 1)
          ELSE pieces[i]]

\* s.replace(/^"|"$/g, ''): one leading and one trailing double quote removed
stripQuotes(s) ==
    LET a == IF s # <<>> /\ Head(s) = DQ THEN Tail(s) ELSE s
    IN IF a # <<>> /\ a[Len(a)] = DQ THEN SubSeq(a, 1, Len(a) - 1) ELSE a

\* s.replace(/""/g, '"'): each pair of double quotes, left to right, becomes one
RECURSIVE unescapeQuotes(_)
unescapeQuotes(s) ==
    IF s = <<>> THEN <<>>
    ELSE IF Len(s) >= 2 /\ s[1] = DQ /\ s[2] = DQ
    THEN <<DQ>> \o unescapeQuotes(SubSeq(s, 3, Len(s)))
    ELSE <<Head(s)>> \o unescapeQuotes(Tail(s))

\* the lookahead (?=\s*,|\s*$) with j the index of the next character
RECURSIVE lookahead(_, _)
lookahead(s, j) ==
    IF j > Len(s) THEN TRUE
    ELSE IF s[j] = COMMA THEN TRUE
    ELSE IF IsSpace(s[j]) THEN lookahead(s, j + 1)
    ELSE FALSE

\* the alternative ".*?" at index i: the index of the nearest closing quote that
\* the lookahead accepts (the quantifier is lazy), 0 when there is none
quotedEnd(s, i) ==
    LET E == {e \in (i + 1)..Len(s) :
                /\ s[e] = DQ
                /\ \A k \in (i + 1)..(e - 1) : ~IsLineTerminator(s[k])
                /\ lookahead(s, e + 1)}
    IN IF s[i] = DQ /\ E # {} THEN Min(E) ELSE 0

\* the alternative [^",\s]+ at index i: the index of the farthest end that the
\* lookahead accepts (the quantifier is greedy), 0 when there is none
bareEnd(s, i) ==
    LET E == {e \in i..Len(s) :
                /\ \A k \in i..e : s[k] # DQ /\ s[k] # COMMA /\ ~IsSpace(s[k])
                /\ lookahead(s, e + 1)}
    IN IF E # {} THEN Max(E) ELSE 0

\* line.match(/(".*?"|[^",\s]+)(?=\s*,|\s*$)/g) from index i on: the matches
\* left to right, each search starting where the last match ended (<<>> stands
\* for null, no match)
RECURSIVE matchFields(_, _)
matchFields(s, i) ==
    IF i > Len(s) THEN <<>>
    ELSE LET q == quotedEnd(s, i)
             b == bareEnd(s, i)
             e == IF q # 0 THEN q ELSE b
         IN IF e = 0 THEN matchFields(s, i + 1)
            ELSE <<SubSeq(s, i, e)>> \o matchFields(s, e + 1)

\* the row of one data line (lines 143-157)
rowOf(line, delimiter, headers) ==
    IF delimiter = COMMA
    THEN LET matches == matchFields(line, 1)
             row == IF matches # <<>>
                    THEN [k \in 1..Len(matches) |-> unescapeQuotes(stripQuotes(matches[k]))]
                    ELSE split(line, delimiter)
         IN IF Len(row) # Len(headers) THEN split(line, delimiter) ELSE row
    ELSE split(line, delimiter)

\* obj after the assignments obj[headers[j]] = row[j]?.trim() || '' for j < n
RECURSIVE rowObject(_, _, _)
rowObject(headers, row, n) ==
    IF n = 0 THEN <<>>
    ELSE setProp(rowObject(headers, row, n - 1), headers[n],
                 Str(IF n <= Len(row) THEN trim(row[n]) ELSE <<>>))

\* parseCSV calling map on the result of match without testing it for null
parseCSVUnguarded(txt, delimiter) ==
    LET lines == splitLines(trim(txt))
    IN IF delimiter = COMMA /\ \E i \in 2..Len(lines) : matchFields(lines[i], 1) = <<>>
       THEN Thrown("TypeError")
       ELSE List(<<>>)

parseCSV(txt, delimiter) ==
    LET lines == splitLines(trim(txt))
        cells == split(lines[1], delimiter)
        headers == [k \in 1..Len(cells) |-> stripQuotes(trim(cells[k]))]
    IN List([i \in 1..(Len(lines) - 1) |->
                Rec(rowObject(headers, rowOf(lines[i + 1], delimiter, headers), Len(headers)))])

\* one cell of toCSV: (row[fieldName] ?? ''), as a string, quotes doubled, quoted
csvCell(row, fieldName) ==
    LET val == getMember(row, fieldName)
        str == IF val.t \in {"null", "undefined"} THEN <<>> ELSE String(val)
    IN <<DQ>> \o replaceChar(str, DQ, <<DQ, DQ>>) \o <<DQ>>

\* toCSV throws a TypeError on a null or undefined row (Object.keys(null))
toCSVThrows(d) ==
    LET arr == IF IsList(d) THEN d.xs ELSE <<d>>
    IN \E i \in 1..Len(arr) : arr[i].t \in {"null", "undefined"}

\* toCSV taking the headers from the first row only
toCSVFirstRowHeaders(d, delimiter) ==
    LET arr == IF IsList(d) THEN d.xs ELSE <<d>>
        headers == IF arr = <<>> THEN <<>> ELSE objectKeys(arr[1])
        csvRows == <<join(headers, <<delimiter>>)>> \o
                   [i \in 1..Len(arr) |->
                       join([j \in 1..Len(headers) |-> csvCell(arr[i], headers[j])],
                            <<delimiter>>)]
    IN IF Len(arr) = 0 THEN <<>> ELSE join(csvRows, <<NL>>)

toCSV(d, delimiter) ==
    LET arr == IF IsList(d) THEN d.xs ELSE <<d>>
        headers == uniq(Concat([i \in 1..Len(arr) |-> objectKeys(arr[i])]))
        csvRows == <<join(headers, <<delimiter>>)>> \o
                   [i \in 1..Len(arr) |->
                       join([j \in 1..Len(headers) |-> csvCell(arr[i], headers[j])],
                            <<delimiter>>)]
    IN IF Len(arr) = 0 THEN <<>> ELSE join(csvRows, <<NL>>)

(***************************************************************************)
(* Inputs and the state outside a call.                                    *)
(***************************************************************************)
Strs(A, n) == UNION {[1..k -> A] : k \in 0..n}

NoFile == [name |-> <<>>, text |-> <<>>]
\* the content of a Blob: a text, or the document an external codec writes
\* from a value
TextBlob(txt) == [kind |-> "text", text |-> txt, value |-> Undefined]
CodecBlob(kind, v) == [kind |-> kind, text |-> <<>>, value |-> v]
NoResult == [name |-> <<>>, mime |-> "", output |-> TextBlob(<<>>)]
\* the local variables of parseSQLValuesString before the loop
ScanStart ==
    [rows |-> <<>>, currentRow |-> <<>>, currentVal |-> <<>>,
     inQuote |-> FALSE, quoteChar |-> "", depth |-> 0]
\* no scan is under way
NoScan == pos = 0 /\ scan = ScanStart
scanVars == <<pos, scan>>
\* the application holds no file item and runs no conversion
NoApp == files = <<>> /\ filesRef = <<>> /\ nextId = 0 /\ tasks = <<>> /\ version = ""
appVars == <<files, filesRef, nextId, tasks, version>>
\* the script loader has loaded nothing and loads nothing
NoLoader == loadedScripts = {} /\ loadingScripts = <<>> /\ head = <<>> /\ returned = <<>>
loaderVars == <<loadedScripts, loadingScripts, head, returned>>

\* no convertDataFile call is under way
NoCall ==
    /\ file = NoFile
    /\ type = ""
    /\ result = NoResult
    /\ error = <<>>
    /\ calls = <<>>
callVars == <<file, type, result, error, calls>>

(***************************************************************************)
(* The delimited codec as a state machine: a caller holds a dataset and    *)
(* serializes it with toCSV, or holds a text and parses it with parseCSV.  *)
(***************************************************************************)
Delimiters == {COMMA, TAB}

\* scalar cell values: strings of up to n characters over a small alphabet,
\* numbers, booleans
CsvValAlphabet == {"a", COMMA, DQ, SP, NL}
CsvValues(n) ==
    {Str(s) : s \in Strs(CsvValAlphabet, n)}
        \cup {Num(0), Num(12), Num(-3), Bool(TRUE), Bool(FALSE)}
Prop(k, v) == [k |-> k, v |-> v]
\* lists of records with unique keys: none, one or two records, one or two
\* keys; and a record that is not in a list
CsvDatasetsOver(V) ==
    {List(<<>>)}
        \cup {Rec(<<Prop(<<"k">>, v)>>) : v \in V}
        \cup {List(<<Rec(<<Prop(<<"k">>, v)>>)>>) : v \in V}
        \cup {List(<<Rec(<<Prop(<<"k">>, v)>>), Rec(<<Prop(<<"k">>, w)>>)>>) :
                    v \in V, w \in V}
        \cup {List(<<Rec(<<Prop(<<"k">>, v), Prop(<<"n">>, w)>>)>>) :
                    v \in V, w \in V}
        \cup {List(<<Rec(<<Prop(<<"k">>, v)>>), Rec(<<Prop(<<"n">>, w)>>)>>) :
                    v \in V, w \in V}
CsvDatasets(n) == CsvDatasetsOver(CsvValues(n))
\* the values given to the serializer alone
ToCsvValues(n) ==
    {Str(s) : s \in Strs({"a", COMMA, DQ}, n)} \cup {Num(12), Bool(TRUE)}

\* texts: a header line of one or two names, then a body of any characters
CsvHeaders(d) == {<<"a">>, <<"a", d, "b">>}
CsvTexts(d) ==
    {h \o <<NL>> \o b : h \in CsvHeaders(d), b \in Strs({"a", d, DQ, SP, NL}, MaxLineLen)}

InitCSV ==
    /\ delim \in Delimiters
    /\ table = <<>>
    /\ NoScan /\ NoApp /\ NoLoader
    /\ \/ pc = "value" /\ data \in CsvDatasets(MaxValLen) /\ text = <<>>
       \/ pc = "text" /\ data = Undefined /\ text \in CsvTexts(delim)
    /\ dump = <<>>
    /\ parsed = Undefined
    /\ NoCall

\* text = toCSV(data, delim)
CallToCSV ==
    /\ pc = "value"
    /\ ~toCSVThrows(data)
    /\ text' = toCSV(data, delim)
    /\ pc' = "text"
    /\ UNCHANGED <<delim, table, data, dump, parsed, callVars, scanVars, appVars, loaderVars>>

\* parsed = parseCSV(text, delim)
CallParseCSV ==
    /\ pc = "text"
    /\ parsed' = parseCSV(text, delim)
    /\ pc' = "parsed"
    /\ UNCHANGED <<delim, table, data, dump, text, callVars, scanVars, appVars, loaderVars>>

NextCSV == CallToCSV \/ CallParseCSV

SpecCSV == InitCSV /\ [][NextCSV]_vars

\* the serializer alone: toCSV applied to every dataset
InitToCSV ==
    /\ delim \in Delimiters
    /\ table = <<>>
    /\ NoScan /\ NoApp /\ NoLoader
    /\ pc = "value" /\ data \in CsvDatasetsOver(ToCsvValues(MaxValLen)) /\ text = <<>>
    /\ dump = <<>>
    /\ parsed = Undefined
    /\ NoCall

NextToCSV == CallToCSV

SpecToCSV == InitToCSV /\ [][NextToCSV]_vars

(***************************************************************************)
(* Claims about the delimited codec.                                       *)
(***************************************************************************)

\* a round trip has completed: a dataset was serialized and the text parsed
CsvRoundTripDone == pc = "parsed" /\ data.t = "list"

\* record q holds, for every key of record r, the string form of r's value
SameStringified(r, q) ==
    /\ q.t = "rec"
    /\ \A i \in 1..Len(r.kv) :
          getProp(q.kv, r.kv[i].k) = Str(String(r.kv[i].v))

\* C1: CSV round trip.  For every list r of records with unique string keys
\* and scalar values, parseCSV(toCSV(r, ','), ',') has as many records as r,
\* in the same order, and record i maps every key of r[i] to the string form
\* of r[i]'s value.
C1_CsvRoundTrip ==
    (CsvRoundTripDone /\ delim = COMMA) =>
        /\ Len(parsed.xs) = Len(data.xs)
        /\ \A i \in 1..Len(data.xs) : SameStringified(data.xs[i], parsed.xs[i])

\* C17: TSV round trip.  For every list r of records with unique string keys
\* and scalar values, parseCSV(toCSV(r, '\t'), '\t') has as many records as r,
\* in the same order, and record i maps every key of r[i] to the string form
\* of r[i]'s value, without the quotes the serializer put around the cell.
C17_TsvRoundTrip ==
    (CsvRoundTripDone /\ delim = TAB) =>
        /\ Len(parsed.xs) = Len(data.xs)
        /\ \A i \in 1..Len(data.xs) : SameStringified(data.xs[i], parsed.xs[i])

\* the data is a list of one record with the one key k, whose value is a string
\* that holds a double quote and neither white space nor a line break
OneQuotedValue ==
    /\ data.t = "list" /\ Len(data.xs) = 1 /\ Len(data.xs[1].kv) = 1
    /\ data.xs[1].kv[1].v.t = "str"
    /\ \E i \in 1..Len(data.xs[1].kv[1].v.s) : data.xs[1].kv[1].v.s[i] = DQ
    /\ \A i \in 1..Len(data.xs[1].kv[1].v.s) : ~IsSpace(data.xs[1].kv[1].v.s[i])

\* C18: CSV quoting.  For a string value holding double quotes, toCSV emits
\* each " of the value doubled inside the quoted cell, and parseCSV applied to
\* that output returns the original string for the cell.
C18_QuoteRoundTrip ==
    (delim = COMMA /\ OneQuotedValue) =>
        /\ pc \in {"text", "parsed"} =>
              text = <<"k", NL, DQ>> \o replaceChar(data.xs[1].kv[1].v.s, DQ, <<DQ, DQ>>) \o <<DQ>>
        /\ pc = "parsed" => parsed = List(<<Rec(<<Prop(<<"k">>, data.xs[1].kv[1].v)>>)>>)

\* the keys of the rows in first-seen order
RECURSIVE FirstSeenKeys(_, _)
FirstSeenKeys(rows, seen) ==
    IF rows = <<>> THEN seen
    ELSE LET new == SelectSeq(Keys(Head(rows).kv), LAMBDA k : \A i \in 1..Len(seen) : seen[i] # k)
         IN FirstSeenKeys(Tail(rows), seen \o new)
\* the cell of a row for a header key
QuotedCell(row, k) ==
    IF hasKey(row.kv, k)
    THEN <<DQ>> \o replaceChar(String(getProp(row.kv, k)), DQ, <<DQ, DQ>>) \o <<DQ>>
    ELSE <<DQ, DQ>>

\* C20: toCSV output shape.  The header row lists the union of the keys of all
\* records in first-seen order; every data row has one cell per header key, in
\* header order, each in double quotes, and a record lacking a header key gives
\* the empty quoted cell; a value that is not a list is a list of one element.
C20_OutputShape ==
    pc = "text" /\ data # Undefined =>
        LET rows == IF data.t = "list" THEN data.xs ELSE <<data>>
            hs == FirstSeenKeys(rows, <<>>)
        IN text = join(<<join(hs, <<delim>>)>> \o
                       [i \in 1..Len(rows) |->
                           join([j \in 1..Len(hs) |-> QuotedCell(rows[i], hs[j])], <<delim>>)],
                       <<NL>>)

\* C20 witness: two records with different keys have been serialized, each
\* row with an empty quoted cell for the key it lacks
C20_Witness ==
    /\ pc = "text"
    /\ data = List(<<Rec(<<Prop(<<"k">>, Str(<<"a">>))>>), Rec(<<Prop(<<"n">>, Num(12))>>)>>)
    /\ delim = COMMA
    /\ text = <<"k", COMMA, "n", NL, DQ, "a", DQ, COMMA, DQ, DQ, NL, DQ, DQ, COMMA, DQ, "1", "2", DQ>>

\* C20 witness of the other case: a record outside a list has been serialized
C20_WitnessRecord ==
    /\ pc = "text"
    /\ data = Rec(<<Prop(<<"k">>, Str(<<"a">>))>>)
    /\ text = <<"k", NL, DQ, "a", DQ>>

\* the text is the header a, or a<d>b, and one more piece: the body
BodyOf(txt, d) ==
    IF startsWith(txt, <<"a", d, "b", NL>>) THEN SubSeq(txt, 5, Len(txt))
    ELSE SubSeq(txt, 3, Len(txt))
HeadersOf(txt, d) ==
    IF startsWith(txt, <<"a", d, "b", NL>>) THEN <<(<<"a">>), (<<"b">>)>> ELSE <<(<<"a">>)>>

\* C9: a field enclosed in double quotes that contains the delimiter or a line
\* break is one field whose content includes that character.  Stated for a
\* data record whose first field is "x<c>y" with c the delimiter or a line
\* feed, and x, y plain: the text parses to exactly one record, whose first
\* header maps to x<c>y.
C9_QuotedSeparatorIsContent ==
    (pc = "parsed" /\ data = Undefined) =>
        \A c \in {delim, NL} : \A x, y \in Strs({"a"}, 1) :
            LET field == <<DQ>> \o x \o <<c>> \o y \o <<DQ>>
                body == BodyOf(text, delim)
                plainRest == \A j \in (Len(field) + 2)..Len(body) : body[j] \notin {NL, DQ}
            IN (body = field \/ (startsWith(body, field \o <<delim>>) /\ plainRest))
               => /\ Len(parsed.xs) = 1
                  /\ getProp(parsed.xs[1].kv, <<"a">>) = Str(x \o <<c>> \o y)

\* The fields of one line as section 4.2 of the specification defines them: the
\* delimiter separates fields outside double quotes, a field may be enclosed
\* in double quotes, and "" inside a quoted field is one double quote.
\* mode: "start" of a field, in a "bare" field, in a "quoted" field, "after"
\* the closing quote.  ok is FALSE for a line that is not of this form.
RECURSIVE LineFields(_, _, _, _, _, _)
LineFields(s, d, i, cur, mode, acc) ==
    IF i > Len(s)
    THEN [ok |-> mode # "quoted", fields |-> Append(acc, cur)]
    ELSE LET c == s[i] IN
      CASE mode = "start" ->
             IF c = DQ THEN LineFields(s, d, i + 1, <<>>, "quoted", acc)
             ELSE IF c = d THEN LineFields(s, d, i + 1, <<>>, "start", Append(acc, <<>>))
             ELSE LineFields(s, d, i + 1, <<c>>, "bare", acc)
        [] mode = "bare" ->
             IF c = d THEN LineFields(s, d, i + 1, <<>>, "start", Append(acc, cur))
             ELSE IF c = DQ THEN [ok |-> FALSE, fields |-> acc]
             ELSE LineFields(s, d, i + 1, Append(cur, c), "bare", acc)
        [] mode = "quoted" ->
             IF c = DQ /\ i < Len(s) /\ s[i + 1] = DQ
             THEN LineFields(s, d, i + 2, Append(cur, DQ), "quoted", acc)
             ELSE IF c = DQ THEN LineFields(s, d, i + 1, cur, "after", acc)
             ELSE LineFields(s, d, i + 1, Append(cur, c), "quoted", acc)
        [] mode = "after" ->
             IF c = d THEN LineFields(s, d, i + 1, <<>>, "start", Append(acc, cur))
             ELSE [ok |-> FALSE, fields |-> acc]

\* C10: for every data line the record maps header[i] to the i-th field of the
\* line, a short line giving the empty string for the missing trailing
\* headers and a long line keeping its first |headers| fields.  Stated for a
\* text of one data line without line breaks, and up to white space around a
\* field.
C10_RecordMapsHeaderToField ==
    (pc = "parsed" /\ data = Undefined) =>
        LET body == BodyOf(text, delim)
            hs == HeadersOf(text, delim)
            lf == LineFields(body, delim, 1, <<>>, "start", <<>>)
        IN (trim(body) = body /\ body # <<>> /\ (\A j \in 1..Len(body) : body[j] # NL) /\ lf.ok)
           => /\ Len(parsed.xs) = 1
              /\ \A i \in 1..Len(hs) :
                    getProp(parsed.xs[1].kv, hs[i]).s
                        = trim(IF i <= Len(lf.fields) THEN lf.fields[i] ELSE <<>>)

(***************************************************************************)
(* The XML serializer: toXML.                                              *)
(***************************************************************************)
LT == "<"
GT == ">"
AMP == "&"
SLASH == "/"

\* '<?xml version="1.0" encoding="UTF-8"?>'
XmlDecl ==
    <<"<", "?", "x", "m", "l", " ", "v", "e", "r", "s", "i", "o", "n", "=", DQ, "1", ".", "0", DQ, " ", "e", "n", "c", "o", "d", "i", "n", "g", "=", DQ, "U", "T", "F", "-", "8", DQ, "?", ">">>
RootName == <<"r", "o", "o", "t">>
ItemName == <<"i", "t", "e", "m">>
AttributesKey == <<"@", "a", "t", "t", "r", "i", "b", "u", "t", "e", "s">>
TextName == <<"#", "t", "e", "x", "t">>

\* one character of String(data) after .replace(/&/g, '&amp;')
\* .replace(/</g, '&lt;').replace(/>/g, '&gt;')
escapeChar(c) ==
    CASE c = AMP -> <<"&", "a", "m", "p", ";">>
      [] c = LT -> <<"&", "l", "t", ";">>
      [] c = GT -> <<"&", "g", "t", ";">>
      [] OTHER -> <<c>>
escapeXml(str) == Concat([i \in 1..Len(str) |-> escapeChar(str[i])])

\* the replacement of the characters without the prefix for a leading digit
sanitizeNameNoPrefix(key) ==
    [i \in 1..Len(key) |-> IF IsWordChar(key[i]) \/ key[i] = "-" THEN key[i] ELSE "_"]

\* nodeName.replace(/[^a-zA-Z0-9_\-]/g, '_'), then '_' + nodeName if it starts
\* with a digit
sanitizeName(key) ==
    LET n == [i \in 1..Len(key) |-> IF IsWordChar(key[i]) \/ key[i] = "-" THEN key[i] ELSE "_"]
    IN IF n # <<>> /\ IsDigit(n[1]) THEN <<"_">> \o n ELSE n

openTag(nodeName) == <<LT>> \o nodeName \o <<GT>>
closeTag(nodeName) == <<LT, SLASH>> \o nodeName \o <<GT>>

\* the envelope added when rootName === 'root' (lines 391-393)
envelope(xml) == XmlDecl \o <<NL>> \o openTag(RootName) \o xml \o closeTag(RootName)

RECURSIVE toXML(_, _)
toXML(d, rootName) ==
    LET xml ==
          IF IsList(d)
          THEN Concat([i \in 1..Len(d.xs) |-> toXML(d.xs[i], ItemName)])
          ELSE IF IsRec(d)
          THEN Concat([i \in 1..Len(d.kv) |->
                  IF d.kv[i].k = AttributesKey THEN <<>>
                  ELSE LET nodeName == sanitizeName(d.kv[i].k)
                       IN openTag(nodeName) \o toXML(d.kv[i].v, nodeName) \o closeTag(nodeName)])
          ELSE escapeXml(String(d))
    IN IF rootName = RootName THEN envelope(xml) ELSE xml

(***************************************************************************)
(* The browser's XML parser, new DOMParser().parseFromString(text,         *)
(* "text/xml"), for texts made of an optional XML declaration, elements    *)
(* with attributes, character data and the five predefined entities (no    *)
(* comments, CDATA sections, doctype, namespaces prefixes or other         *)
(* processing instructions).  A node is a record with the DOM's fields.    *)
(* On a text that is not well formed the parser does not throw: it returns *)
(* a document whose root element is <parsererror>.                         *)
(***************************************************************************)
ElementNode(name, attrs, children) ==
    [nodeType |-> 1, nodeName |-> name, nodeValue |-> <<>>,
     attributes |-> attrs, childNodes |-> children]
TextNode(value) ==
    [nodeType |-> 3, nodeName |-> TextName, nodeValue |-> value,
     attributes |-> <<>>, childNodes |-> <<>>]
Attr(name, value) == [nodeName |-> name, nodeValue |-> value]

ParserErrorName == <<"p", "a", "r", "s", "e", "r", "e", "r", "r", "o", "r">>
SourceTextName == <<"s", "o", "u", "r", "c", "e", "t", "e", "x", "t">>
\* The documents a parser may return for a text that is not well formed: the
\* root element parsererror, without a description of the error, with the
\* description as its text, or with the description followed by an element
\* quoting the offending source; or an html document whose body holds the
\* parsererror element.
ParserErrorDocuments ==
    {ElementNode(ParserErrorName, <<>>, <<>>),
     ElementNode(ParserErrorName, <<>>, <<TextNode(<<"e", "r", "r", "o", "r">>)>>),
     ElementNode(ParserErrorName, <<>>,
                 <<TextNode(<<"e", "r", "r", "o", "r">>),
                   ElementNode(SourceTextName, <<>>, <<TextNode(<<"x">>)>>)>>),
     ElementNode(<<"h", "t", "m", "l">>, <<>>,
                 <<ElementNode(<<"b", "o", "d", "y">>, <<>>,
                     <<ElementNode(ParserErrorName, <<>>,
                         <<ElementNode(<<"h", "3">>, <<>>,
                                       <<TextNode(<<"e", "r", "r", "o", "r">>)>>)>>)>>)>>)}
NotWellFormed == [ok |-> FALSE, root |-> ElementNode(ParserErrorName, <<>>, <<>>)]

IsLetter(c) == c \in LowerSet \cup UpperSet
IsNameStart(c) == IsLetter(c) \/ c = "_"
IsNameChar(c) == IsNameStart(c) \/ IsDigit(c) \/ c = "-" \/ c = "."

RECURSIVE nameEnd(_, _)
\* the index after the name that holds index i
nameEnd(s, i) == IF i <= Len(s) /\ IsNameChar(s[i]) THEN nameEnd(s, i + 1) ELSE i
RECURSIVE skipSpace(_, _)
skipSpace(s, i) == IF i <= Len(s) /\ IsSpace(s[i]) THEN skipSpace(s, i + 1) ELSE i

\* the predefined entity references
Entities ==
    {[ref |-> <<"&", "a", "m", "p", ";">>, ch |-> AMP], [ref |-> <<"&", "l", "t", ";">>, ch |-> LT], [ref |-> <<"&", "g", "t", ";">>, ch |-> GT],
     [ref |-> <<"&", "q", "u", "o", "t", ";">>, ch |-> DQ], [ref |-> <<"&", "a", "p", "o", "s", ";">>, ch |-> SQ]}

\* Character data from index i: up to the next "<" (q = "", element content)
\* or up to the closing quote q (an attribute value), references replaced.
RECURSIVE readChars(_, _, _, _)
readChars(s, i, acc, q) ==
    IF i > Len(s) THEN [ok |-> q = "", val |-> acc, next |-> i]
    ELSE IF q = "" /\ s[i] = LT THEN [ok |-> TRUE, val |-> acc, next |-> i]
    ELSE IF q # "" /\ s[i] = q THEN [ok |-> TRUE, val |-> acc, next |-> i + 1]
    ELSE IF s[i] = LT THEN [ok |-> FALSE, val |-> acc, next |-> i]
    ELSE IF s[i] = AMP
    THEN IF \E e \in Entities : occursAt(s, e.ref, i)
         THEN LET e == CHOOSE e \in Entities : occursAt(s, e.ref, i)
              IN readChars(s, i + Len(e.ref), Append(acc, e.ch), q)
         ELSE [ok |-> FALSE, val |-> acc, next |-> i]
    ELSE readChars(s, i + 1, Append(acc, s[i]), q)

\* The attributes and the end of a start tag, from index i (after the name).
RECURSIVE readAttrs(_, _, _)
readAttrs(s, i, attrs) ==
    LET j == skipSpace(s, i)
        bad == [ok |-> FALSE, attrs |-> attrs, next |-> j, empty |-> FALSE]
    IN IF j > Len(s) THEN bad
       ELSE IF s[j] = GT THEN [ok |-> TRUE, attrs |-> attrs, next |-> j + 1, empty |-> FALSE]
       ELSE IF s[j] = SLASH
       THEN IF j < Len(s) /\ s[j + 1] = GT
            THEN [ok |-> TRUE, attrs |-> attrs, next |-> j + 2, empty |-> TRUE]
            ELSE bad
       ELSE IF j = i \/ ~IsNameStart(s[j]) THEN bad
       ELSE LET e == nameEnd(s, j + 1)
                name == SubSeq(s, j, e - 1)
                k == skipSpace(s, e)
                m == skipSpace(s, k + 1)
            IN IF k > Len(s) \/ s[k] # "=" THEN bad
               ELSE IF m > Len(s) \/ s[m] \notin {DQ, SQ} THEN bad
               ELSE LET v == readChars(s, m + 1, <<>>, s[m])
                    IN IF ~v.ok \/ (\E a \in 1..Len(attrs) : attrs[a].nodeName = name)
                       THEN bad
                       ELSE readAttrs(s, v.next, Append(attrs, Attr(name, v.val)))

\* the stack of open elements with node appended to the innermost one
addChild(stack, node) ==
    [stack EXCEPT ![Len(stack)].childNodes = Append(@, node)]

\* The nodes from index i on; stack holds the open elements, the document
\* itself at the bottom.
RECURSIVE parseNodes(_, _, _)
parseNodes(s, i, stack) ==
    LET top == stack[Len(stack)]
        atDocument == Len(stack) = 1
    IN IF i > Len(s)
       THEN IF atDocument /\ Len(top.childNodes) = 1
            THEN [ok |-> TRUE, root |-> top.childNodes[1]]
            ELSE NotWellFormed
       ELSE IF s[i] = LT
       THEN IF i < Len(s) /\ s[i + 1] = SLASH
            THEN \* an end tag: it must close the innermost open element
                 LET e == nameEnd(s, i + 2)
                     j == skipSpace(s, e)
                 IN IF /\ ~atDocument
                       /\ SubSeq(s, i + 2, e - 1) = top.nodeName
                       /\ j <= Len(s) /\ s[j] = GT
                    THEN parseNodes(s, j + 1,
                            addChild(SubSeq(stack, 1, Len(stack) - 1),
                                     ElementNode(top.nodeName, top.attributes, top.childNodes)))
                    ELSE NotWellFormed
            ELSE IF i < Len(s) /\ IsNameStart(s[i + 1])
            THEN \* a start tag or an empty-element tag
                 LET e == nameEnd(s, i + 2)
                     name == SubSeq(s, i + 1, e - 1)
                     a == readAttrs(s, e, <<>>)
                 IN IF ~a.ok \/ (atDocument /\ top.childNodes # <<>>) THEN NotWellFormed
                    ELSE IF a.empty
                    THEN parseNodes(s, a.next, addChild(stack, ElementNode(name, a.attrs, <<>>)))
                    ELSE parseNodes(s, a.next, Append(stack, ElementNode(name, a.attrs, <<>>)))
            ELSE NotWellFormed
       ELSE LET t == readChars(s, i, <<>>, "")
            IN IF ~t.ok THEN NotWellFormed
               ELSE IF atDocument
               THEN IF trim(t.val) = <<>>
                    THEN parseNodes(s, t.next, stack)
                    ELSE NotWellFormed
               ELSE parseNodes(s, t.next, addChild(stack, TextNode(t.val)))

\* parser.parseFromString(text, "text/xml"): [ok, root], root being the
\* document element of a well-formed text
parseFromString(txt) ==
    LET start == IF startsWith(txt, XmlDecl) THEN Len(XmlDecl) + 1 ELSE 1
    IN parseNodes(txt, start, <<ElementNode(<<>>, <<>>, <<>>)>>)

(***************************************************************************)
(* The XML parser: parseXML and xmlToJson.                                 *)
(***************************************************************************)
IsThrown(v) == v.t = "throw"

\* if (val): every object is truthy, a string unless it is empty
truthy(v) ==
    CASE v.t = "str" -> v.s # <<>>
      [] v.t = "num" -> v.n # 0
      [] v.t = "bool" -> v.b
      [] v.t \in {"null", "undefined"} -> FALSE
      [] OTHER -> TRUE

\* obj["@attributes"] after the loop of lines 180-183
RECURSIVE attributesObject(_, _)
attributesObject(attrs, n) ==
    IF n = 0 THEN <<>>
    ELSE setProp(attributesObject(attrs, n - 1), attrs[n].nodeName, Str(attrs[n].nodeValue))

RECURSIVE xmlToJson(_)
RECURSIVE xmlChildren(_, _, _)
\* the loop with a text child replacing the object whatever keys it holds
RECURSIVE xmlChildrenTextWins(_, _, _)
xmlChildrenTextWins(nodes, i, obj) ==
    IF i > Len(nodes) \/ IsThrown(obj) THEN obj
    ELSE LET item == nodes[i]
             nodeName == item.nodeName
         IN IF nodeName = TextName /\ trim(item.nodeValue) = <<>>
            THEN xmlChildrenTextWins(nodes, i + 1, obj)
            ELSE IF obj.t = "str"
            THEN Thrown("TypeError")
            ELSE IF ~hasKey(obj.kv, nodeName)
            THEN LET val == IF nodeName = TextName THEN Str(item.nodeValue) ELSE xmlToJson(item)
                     kv == IF truthy(val) THEN setProp(obj.kv, nodeName, val) ELSE obj.kv
                 IN IF IsThrown(val) THEN val
                    ELSE xmlChildrenTextWins(nodes, i + 1,
                            IF nodeName = TextName THEN val ELSE Rec(kv))
            ELSE LET old == getProp(obj.kv, nodeName)
                     arr == IF IsList(old) THEN old.xs ELSE <<old>>
                     val == xmlToJson(item)
                 IN IF IsThrown(val) THEN val
                    ELSE xmlChildrenTextWins(nodes, i + 1,
                            Rec(setProp(obj.kv, nodeName, List(Append(arr, val)))))

\* the loop over xml.childNodes (lines 189-209) from child i on, obj being the
\* value built so far.  Once obj has collapsed to a string (line 199), setting
\* a property on it throws a TypeError: the module is strict-mode code.
xmlChildren(nodes, i, obj) ==
    IF i > Len(nodes) \/ IsThrown(obj) THEN obj
    ELSE LET item == nodes[i]
             nodeName == item.nodeName
         IN IF nodeName = TextName /\ trim(item.nodeValue) = <<>>
            THEN xmlChildren(nodes, i + 1, obj)
            ELSE IF obj.t = "str"
            THEN Thrown("TypeError")
            ELSE IF ~hasKey(obj.kv, nodeName)
            THEN LET val == IF nodeName = TextName THEN Str(item.nodeValue) ELSE xmlToJson(item)
                     kv == IF truthy(val) THEN setProp(obj.kv, nodeName, val) ELSE obj.kv
                 IN IF IsThrown(val) THEN val
                    ELSE xmlChildren(nodes, i + 1,
                            IF nodeName = TextName /\ Len(kv) = 1 THEN val ELSE Rec(kv))
            ELSE LET old == getProp(obj.kv, nodeName)
                     arr == IF IsList(old) THEN old.xs ELSE <<old>>
                     val == xmlToJson(item)
                 IN IF IsThrown(val) THEN val
                    ELSE xmlChildren(nodes, i + 1,
                            Rec(setProp(obj.kv, nodeName, List(Append(arr, val)))))

xmlToJson(xml) ==
    LET obj == IF xml.nodeType = 1
               THEN IF Len(xml.attributes) > 0
                    THEN Rec(<<Prop(AttributesKey,
                                    Rec(attributesObject(xml.attributes, Len(xml.attributes))))>>)
                    ELSE Rec(<<>>)
               ELSE IF xml.nodeType = 3 THEN Str(xml.nodeValue)
               ELSE Rec(<<>>)
    IN xmlChildren(xml.childNodes, 1, obj)

\* parseXML(text), errorDocument being the document the parser returns when the
\* text is not well formed
parseXML(txt, errorDocument) ==
    LET doc == parseFromString(txt)
    IN xmlToJson(IF doc.ok THEN doc.root ELSE errorDocument)

(***************************************************************************)
(* The XML codec as a state machine.                                       *)
(***************************************************************************)
XmlScalars == {Str(<<"1">>), Str(<<"2">>), Str(<<"x", LT, AMP>>), Str(<<>>), Num(7), Null}
XmlKeys == {<<"a">>, <<"b">>, RootName, ItemName, AttributesKey, <<"1", "x">>, <<"a", SP, "b">>}
XmlFlatValues ==
    XmlScalars
        \cup {Rec(<<Prop(k, v)>>) : k \in XmlKeys, v \in XmlScalars}
        \cup {Rec(<<Prop(<<"a">>, v), Prop(<<"b">>, w)>>) : v \in XmlScalars, w \in XmlScalars}
        \cup {List(<<>>)} \cup {List(<<v>>) : v \in XmlScalars}
        \cup {List(<<v, w>>) : v \in XmlScalars, w \in XmlScalars}
\* values nested two levels deep
XmlValues ==
    XmlFlatValues
        \cup {Rec(<<Prop(k, v)>>) : k \in XmlKeys, v \in XmlFlatValues}
        \cup {List(<<v>>) : v \in XmlFlatValues}
        \cup {List(<<v, w>>) : v \in XmlFlatValues, w \in XmlFlatValues}

\* texts: up to n tags and pieces of character data
XmlTokens ==
    {<<"<", "r", ">">>, <<"<", "/", "r", ">">>, <<"<", "a", ">">>, <<"<", "/", "a", ">">>, <<"<", "b", "/", ">">>,
     <<"<", "a", " ", "k", "=", DQ, "v", DQ, ">">>, <<"x">>, <<SP>>}
XmlTexts(n) == {Concat(ts) : ts \in Strs(XmlTokens, n)}

InitXML ==
    /\ delim = COMMA
    /\ table = <<>>
    /\ NoScan /\ NoApp /\ NoLoader
    /\ \/ pc = "value" /\ data \in XmlValues /\ text = <<>>
       \/ pc = "text" /\ data = Undefined /\ text \in XmlTexts(MaxXmlTokens)
    /\ dump = <<>>
    /\ parsed = Undefined
    /\ NoCall

\* text = toXML(data)
CallToXML ==
    /\ pc = "value"
    /\ text' = toXML(data, RootName)
    /\ pc' = "text"
    /\ UNCHANGED <<delim, table, data, dump, parsed, callVars, scanVars, appVars, loaderVars>>

\* parsed = parseXML(text)
CallParseXML ==
    /\ pc = "text"
    /\ \E errorDocument \in ParserErrorDocuments :
          parsed' = parseXML(text, errorDocument)
    /\ pc' = "parsed"
    /\ UNCHANGED <<delim, table, data, dump, text, callVars, scanVars, appVars, loaderVars>>

NextXML == CallToXML \/ CallParseXML

SpecXML == InitXML /\ [][NextXML]_vars

(***************************************************************************)
(* Claims about the XML codec.                                             *)
(***************************************************************************)

\* a record whose values are non-blank strings under plain tag names
PlainRecord(v) ==
    /\ v.t = "rec"
    /\ v.kv # <<>>
    /\ \A i \in 1..Len(v.kv) :
          /\ v.kv[i].k \in {<<"a">>, <<"b">>}
          /\ v.kv[i].v \in {Str(<<"1">>), Str(<<"2">>)}

\* C3: XML list round trip.  A list of n records (such as [{a:"1"},{a:"2"}])
\* serialized with toXML and parsed with parseXML comes back as a list of n
\* elements in order, each the record with its keys and original string values.
C3_XmlListRoundTrip ==
    (/\ pc = "parsed"
     /\ data.t = "list"
     /\ data.xs # <<>>
     /\ \A i \in 1..Len(data.xs) : PlainRecord(data.xs[i]))
    => /\ parsed.t = "list"
       /\ Len(parsed.xs) = Len(data.xs)
       /\ \A i \in 1..Len(data.xs) : parsed.xs[i] = data.xs[i]

\* C7: toXML serializes a list by emitting, for each element in order, one
\* <item>...</item> element whose body is that element's serialization.
C7_ListItemsWrapped ==
    (pc = "text" /\ data.t = "list")
    => text = envelope(Concat([i \in 1..Len(data.xs) |->
                openTag(ItemName) \o toXML(data.xs[i], ItemName) \o closeTag(ItemName)]))

\* C8: for every value the text toXML returns holds the XML declaration
\* exactly once, as its prefix, inside exactly one <root>...</root> envelope
\* at the outermost level.
C8_OneDeclarationOneEnvelope ==
    (pc = "text" /\ data.t # "undefined")
    => /\ startsWith(text, XmlDecl \o <<NL>> \o openTag(RootName))
       /\ endsWith(text, closeTag(RootName))
       /\ CountOccurrences(text, XmlDecl) = 1

\* the serializer alone: toXML applied to values nested two levels deep and to
\* records that hold attributes beside other keys, as the parser produces them
XmlAttributed ==
    {Rec(<<Prop(AttributesKey, Rec(<<Prop(<<"k">>, Str(<<"v">>))>>)), Prop(k, v)>>) :
        k \in {TextName, <<"a">>, <<"9", "-", "@">>}, v \in XmlScalars}
XmlAttributedValues ==
    XmlAttributed \cup XmlFlatValues
        \cup {Rec(<<Prop(k, v)>>) : k \in XmlKeys, v \in XmlFlatValues}
        \cup {List(<<v>>) : v \in XmlFlatValues}
        \cup {Rec(<<Prop(<<"a">>, v)>>) : v \in XmlAttributed}
        \cup {List(<<v, w>>) : v \in XmlAttributed, w \in XmlAttributed}

InitToXML ==
    /\ delim = COMMA
    /\ table = <<>>
    /\ NoScan /\ NoApp /\ NoLoader
    /\ pc = "value" /\ data \in XmlAttributedValues /\ text = <<>>
    /\ dump = <<>>
    /\ parsed = Undefined
    /\ NoCall

NextToXML == CallToXML

SpecToXML == InitToXML /\ [][NextToXML]_vars

\* the name a key is written as: every character other than a letter, a
\* digit, _ or - becomes _, and _ is put before a leading digit
AllowedInTag == LowerSet \cup UpperSet \cup DigitSet \cup {"_", "-"}
TagNameOf(key) ==
    LET n == [i \in 1..Len(key) |-> IF key[i] \in AllowedInTag THEN key[i] ELSE "_"]
    IN IF Len(n) > 0 /\ n[1] \in DigitSet THEN <<"_">> \o n ELSE n
\* the keys a value is written with: those of its records at every level,
\* without "@attributes" and what is below it
RECURSIVE WrittenKeys(_)
WrittenKeys(d) ==
    IF IsList(d) THEN UNION {WrittenKeys(d.xs[i]) : i \in 1..Len(d.xs)}
    ELSE IF IsRec(d)
    THEN UNION {IF d.kv[i].k = AttributesKey THEN {}
                ELSE {d.kv[i].k} \cup WrittenKeys(d.kv[i].v) : i \in 1..Len(d.kv)}
    ELSE {}
\* the value without its "@attributes" entries
RECURSIVE WithoutAttributes(_)
WithoutAttributes(d) ==
    IF IsList(d) THEN List([i \in 1..Len(d.xs) |-> WithoutAttributes(d.xs[i])])
    ELSE IF IsRec(d)
    THEN LET kept == SelectSeq(d.kv, LAMBDA p : p.k # AttributesKey)
         IN Rec([i \in 1..Len(kept) |-> Prop(kept[i].k, WithoutAttributes(kept[i].v))])
    ELSE d
\* the tags of a text in order, the declaration left out: [close, name]
RECURSIVE TagsOf(_, _)
TagsOf(txt, i) ==
    IF i > Len(txt) THEN <<>>
    ELSE IF txt[i] # LT THEN TagsOf(txt, i + 1)
    ELSE LET j == CHOOSE k \in i..Len(txt) : txt[k] = GT /\ \A m \in i..(k - 1) : txt[m] # GT
             inner == SubSeq(txt, i + 1, j - 1)
         IN IF inner # <<>> /\ inner[1] = "?" THEN TagsOf(txt, j + 1)
            ELSE IF inner # <<>> /\ inner[1] = SLASH
            THEN <<[close |-> TRUE, name |-> Tail(inner)]>> \o TagsOf(txt, j + 1)
            ELSE <<[close |-> FALSE, name |-> inner]>> \o TagsOf(txt, j + 1)
\* every closing tag has the name of the nearest opening tag still open
RECURSIVE TagsMatch(_, _)
TagsMatch(tags, open) ==
    IF tags = <<>> THEN open = <<>>
    ELSE IF ~Head(tags).close THEN TagsMatch(Tail(tags), <<Head(tags).name>> \o open)
    ELSE open # <<>> /\ Head(open) = Head(tags).name /\ TagsMatch(Tail(tags), Tail(open))

\* C25: tag names.  Every tag toXML emits for a record key has the name of the
\* key with each character outside [A-Za-z0-9_-] replaced by _ and _ put before
\* a leading digit; the opening and the closing tag of a key have the same
\* name; the key "@attributes" gives no tag and no text at any level.
C25_TagNames ==
    (pc = "text" /\ data # Undefined) =>
        LET tags == TagsOf(text, 1)
        IN /\ {tags[i].name : i \in 1..Len(tags)} =
                 {TagNameOf(k) : k \in WrittenKeys(data)} \cup {RootName}
           /\ TagsMatch(tags, <<>>)
           /\ text = toXML(WithoutAttributes(data), RootName)
           /\ ~Occurs(text, <<"a", "t", "t", "r", "i", "b", "u", "t", "e", "s">>)

\* C25 witness: a record with attributes and a key that starts with a digit
\* and holds @ has been written with the one tag _9-_
C25_Witness ==
    /\ pc = "text"
    /\ data = Rec(<<Prop(AttributesKey, Rec(<<Prop(<<"k">>, Str(<<"v">>))>>)),
                    Prop(<<"9", "-", "@">>, Str(<<"1">>))>>)
    /\ text = XmlDecl \o <<NL>> \o <<LT>> \o RootName \o <<GT>>
                \o <<LT, "_", "9", "-", "_", GT, "1", LT, SLASH, "_", "9", "-", "_", GT>>
                \o <<LT, SLASH>> \o RootName \o <<GT>>

\* the elements of a tree: its root and the elements below it
RECURSIVE Elements(_)
Elements(node) ==
    IF node.nodeType # 1 THEN {}
    ELSE {node} \cup UNION {Elements(node.childNodes[i]) : i \in 1..Len(node.childNodes)}
\* the children of an element with the tag name n, in document order
ChildrenNamed(e, n) ==
    SelectSeq(e.childNodes, LAMBDA c : c.nodeType = 1 /\ c.nodeName = n)
ChildTagNames(e) ==
    {e.childNodes[i].nodeName : i \in {k \in 1..Len(e.childNodes) : e.childNodes[k].nodeType = 1}}
\* the document the parser made of a well-formed text has been converted
XmlConverted == pc = "parsed" /\ parseFromString(text).ok

\* C23: child grouping.  Under any element a child tag name that occurs once
\* maps to the converted value of that child, and a child tag name that occurs
\* k > 1 times maps to the list of the k converted children in document order,
\* adjacent or not; white-space-only text nodes contribute nothing.
C23_ChildGrouping ==
    XmlConverted =>
        \A e \in Elements(parseFromString(text).root) : \A n \in ChildTagNames(e) :
            LET value == xmlToJson(e)
                cs == ChildrenNamed(e, n)
            IN /\ value.t = "rec"
               /\ hasKey(value.kv, n)
               /\ getProp(value.kv, n) =
                     IF Len(cs) = 1 THEN xmlToJson(cs[1])
                     ELSE List([i \in 1..Len(cs) |-> xmlToJson(cs[i])])
               /\ (\A i \in 1..Len(e.childNodes) :
                        e.childNodes[i].nodeType = 3 => trim(e.childNodes[i].nodeValue) = <<>>)
                     => value = xmlToJson([e EXCEPT !.childNodes =
                                              SelectSeq(e.childNodes, LAMBDA c : c.nodeType = 1)])

\* the parser alone: parseXML applied to every text
InitParseXML ==
    /\ delim = COMMA
    /\ table = <<>>
    /\ NoScan /\ NoApp /\ NoLoader
    /\ pc = "text" /\ data = Undefined /\ text \in XmlTexts(MaxXmlTokens)
    /\ dump = <<>>
    /\ parsed = Undefined
    /\ NoCall

NextParseXML == CallParseXML

SpecParseXML == InitParseXML /\ [][NextParseXML]_vars

\* C24: the leaf rule.  An element whose only content is one non-blank text
\* node converts to the bare string of the text if and only if it has no
\* attributes; with attributes it converts to a record that holds the key
\* "@attributes", mapping each attribute name to its string value.
C24_LeafRule ==
    XmlConverted =>
        \A e \in Elements(parseFromString(text).root) :
            (Len(e.childNodes) = 1 /\ e.childNodes[1].nodeType = 3
                /\ trim(e.childNodes[1].nodeValue) # <<>>) =>
                LET value == xmlToJson(e)
                IN /\ (value.t = "str") <=> (e.attributes = <<>>)
                   /\ e.attributes = <<>> => value = Str(e.childNodes[1].nodeValue)
                   /\ e.attributes # <<>> =>
                         /\ value.t = "rec"
                         /\ hasKey(value.kv, AttributesKey)
                         /\ getProp(value.kv, AttributesKey).t = "rec"
                         /\ Len(getProp(value.kv, AttributesKey).kv) = Len(e.attributes)
                         /\ \A i \in 1..Len(e.attributes) :
                               getProp(getProp(value.kv, AttributesKey).kv, e.attributes[i].nodeName)
                                   = Str(e.attributes[i].nodeValue)
                   /\ e = parseFromString(text).root => parsed = value

\* C24 witness: <a k="v">x</a> has been converted to a record with the
\* attribute, and <a>x</a> converts to the string x
C24_Witness ==
    /\ pc = "parsed"
    /\ text = <<"<", "a", " ", "k", "=", DQ, "v", DQ, ">", "x", "<", "/", "a", ">">>
    /\ parsed.t = "rec"
    /\ getProp(parsed.kv, AttributesKey) = Rec(<<Prop(<<"k">>, Str(<<"v">>))>>)
    /\ parseXML(<<"<", "a", ">", "x", "<", "/", "a", ">">>, ElementNode(<<>>, <<>>, <<>>)) = Str(<<"x">>)

(***************************************************************************)
(* The SQL dump parser: parseSQL, parseSQLValuesString, cleanSQLVal.       *)
(***************************************************************************)
LPAREN == "("
RPAREN == ")"
SEMI == ";"
QuoteChars == {SQ, DQ, BQ}

\* !isNaN(Number(v)) && v !== '' for the integer literals: an optional sign
\* and digits (the texts of the model hold no fraction, exponent or radix
\* prefix)
isNumeric(v) ==
    LET digits == IF v # <<>> /\ v[1] \in {"-", "+"} THEN Tail(v) ELSE v
    IN digits # <<>> /\ \A i \in 1..Len(digits) : IsDigit(digits[i])
\* Number(v) of such a literal
Number(v) ==
    IF v[1] = "-" THEN 0 - StrToNat(Tail(v))
    ELSE IF v[1] = "+" THEN StrToNat(Tail(v))
    ELSE StrToNat(v)

cleanSQLVal(val) ==
    LET v == trim(val)
        wrapped(q) == startsWith(v, <<q>>) /\ endsWith(v, <<q>>)
    IN IF toUpperCase(v) = <<"N", "U", "L", "L">> THEN Null
       ELSE IF isNumeric(v) THEN Num(Number(v))
       ELSE IF wrapped(SQ) \/ wrapped(DQ) \/ wrapped(BQ)
       THEN \* v.substring(1, v.length - 1); substring(1, 0) is substring(0, 1)
            IF Len(v) = 1 THEN Str(v) ELSE Str(SubSeq(v, 2, Len(v) - 1))
       ELSE Str(v)

\* the loop body with a comma ending the scalar at any depth of a tuple
scanCharAnyDepth(str, i, st) ==
    LET char == str[i]
    IN IF st.inQuote
       THEN IF char = st.quoteChar
            THEN IF i < Len(str) /\ str[i + 1] = st.quoteChar
                 THEN [st |-> [st EXCEPT !.currentVal = Append(@, st.quoteChar)], skip |-> TRUE]
                 ELSE [st |-> [st EXCEPT !.inQuote = FALSE], skip |-> FALSE]
            ELSE [st |-> [st EXCEPT !.currentVal = Append(@, char)], skip |-> FALSE]
       ELSE [skip |-> FALSE, st |->
            IF char \in QuoteChars
            THEN [st EXCEPT !.inQuote = TRUE, !.quoteChar = char]
            ELSE IF char = LPAREN
            THEN IF st.depth = 0
                 THEN [st EXCEPT !.currentRow = <<>>, !.currentVal = <<>>, !.depth = @ + 1]
                 ELSE [st EXCEPT !.currentVal = Append(@, char), !.depth = @ + 1]
            ELSE IF char = RPAREN
            THEN IF st.depth - 1 = 0
                 THEN [st EXCEPT !.depth = @ - 1,
                                 !.currentVal = <<>>,
                                 !.currentRow = Append(@, cleanSQLVal(st.currentVal)),
                                 !.rows = Append(@, Append(st.currentRow, cleanSQLVal(st.currentVal)))]
                 ELSE [st EXCEPT !.depth = @ - 1, !.currentVal = Append(@, char)]
            ELSE IF char = COMMA
            THEN IF st.depth >= 1
                 THEN [st EXCEPT !.currentRow = Append(@, cleanSQLVal(st.currentVal)),
                                 !.currentVal = <<>>]
                 ELSE IF st.depth > 1 THEN [st EXCEPT !.currentVal = Append(@, char)]
                 ELSE st
            ELSE IF st.depth >= 1 THEN [st EXCEPT !.currentVal = Append(@, char)]
            ELSE st]

\* one iteration of the loop of parseSQLValuesString at index i: the variables
\* after it, and in skip whether i was advanced past a doubled quote
scanChar(str, i, st) ==
    LET char == str[i]
    IN IF st.inQuote
       THEN IF char = st.quoteChar
            THEN IF i < Len(str) /\ str[i + 1] = st.quoteChar
                 THEN [st |-> [st EXCEPT !.currentVal = Append(@, st.quoteChar)], skip |-> TRUE]
                 ELSE [st |-> [st EXCEPT !.inQuote = FALSE], skip |-> FALSE]
            ELSE [st |-> [st EXCEPT !.currentVal = Append(@, char)], skip |-> FALSE]
       ELSE [skip |-> FALSE, st |->
            IF char \in QuoteChars
            THEN [st EXCEPT !.inQuote = TRUE, !.quoteChar = char]
            ELSE IF char = LPAREN
            THEN IF st.depth = 0
                 THEN [st EXCEPT !.currentRow = <<>>, !.currentVal = <<>>, !.depth = @ + 1]
                 ELSE [st EXCEPT !.currentVal = Append(@, char), !.depth = @ + 1]
            ELSE IF char = RPAREN
            THEN IF st.depth - 1 = 0
                 THEN [st EXCEPT !.depth = @ - 1,
                                 !.currentVal = <<>>,
                                 !.currentRow = Append(@, cleanSQLVal(st.currentVal)),
                                 !.rows = Append(@, Append(st.currentRow, cleanSQLVal(st.currentVal)))]
                 ELSE [st EXCEPT !.depth = @ - 1, !.currentVal = Append(@, char)]
            ELSE IF char = COMMA
            THEN IF st.depth = 1
                 THEN [st EXCEPT !.currentRow = Append(@, cleanSQLVal(st.currentVal)),
                                 !.currentVal = <<>>]
                 ELSE IF st.depth > 1 THEN [st EXCEPT !.currentVal = Append(@, char)]
                 ELSE st
            ELSE IF st.depth >= 1 THEN [st EXCEPT !.currentVal = Append(@, char)]
            ELSE st]

\* the loop of parseSQLValuesString from index i on
RECURSIVE scanValues(_, _, _)
scanValues(str, i, st) ==
    IF i > Len(str) THEN st
    ELSE LET r == scanChar(str, i, st)
         IN scanValues(str, IF r.skip THEN i + 2 ELSE i + 1, r.st)

\* the rows, each a sequence of values
parseSQLValuesString(str) == scanValues(str, 1, ScanStart).rows

\* a literal word of a pattern under flag i, at index i of s
matchWord(s, i, word) ==
    /\ i + Len(word) - 1 <= Len(s)
    /\ \A k \in 1..Len(word) : toUpperChar(s[i + k - 1]) = word[k]

INSERT == <<"I", "N", "S", "E", "R", "T">>
INTO == <<"I", "N", "T", "O">>
VALUES == <<"V", "A", "L", "U", "E", "S">>
NoMatch == [ok |-> FALSE, cols |-> <<>>, vals |-> <<>>, end |-> 0]

\* \s*([\s\S]+?); at index v: the white space gives back what the group needs,
\* the lazy group ends at the first ";" after its first character
valuesGroup(s, v, cols) ==
    LET ws == skipSpace(s, v)
        G == {g \in v..ws : \E e \in (g + 1)..Len(s) : s[e] = SEMI}
    IN IF G = {} THEN NoMatch
       ELSE LET g == Max(G)
                e == Min({e \in (g + 1)..Len(s) : s[e] = SEMI})
            IN [ok |-> TRUE, cols |-> cols, vals |-> SubSeq(s, g, e - 1), end |-> e + 1]

\* \s*VALUES\s*([\s\S]+?); at index j
valuesClause(s, j, cols) ==
    LET v == skipSpace(s, j)
    IN IF matchWord(s, v, VALUES) THEN valuesGroup(s, v + Len(VALUES), cols) ELSE NoMatch

\* \(([^)]+)\)\s*VALUES\s*([\s\S]+?); at index j
columnsClause(s, j) ==
    LET C == {c \in (j + 2)..Len(s) : s[c] = RPAREN}
    IN IF j <= Len(s) /\ s[j] = LPAREN /\ C # {}
          /\ \A k \in (j + 1)..(Min(C) - 1) : s[k] # RPAREN
       THEN valuesClause(s, Min(C) + 1, SubSeq(s, j + 1, Min(C) - 1))
       ELSE NoMatch

\* what follows the table name, at index j: [`"']?\s* and then the column
\* list (withCols, insertWithColsRegex) or VALUES (insertNoColsRegex)
afterName(s, j, withCols) ==
    LET k == skipSpace(s, IF j <= Len(s) /\ s[j] \in QuoteChars THEN j + 1 ELSE j)
    IN IF withCols THEN columnsClause(s, k) ELSE valuesClause(s, k, <<>>)

\* one of the two patterns at index p.  The table name [\w\.]+ is greedy: the
\* longest name after which the rest of the pattern matches is taken.
matchInsert(s, p, withCols) ==
    LET a == skipSpace(s, p + Len(INSERT))
        b == skipSpace(s, a + Len(INTO))
        n == IF b <= Len(s) /\ s[b] \in QuoteChars THEN b + 1 ELSE b
        E == {e \in n..Len(s) :
                /\ \A k \in n..e : IsWordChar(s[k]) \/ s[k] = "."
                /\ afterName(s, e + 1, withCols).ok}
    IN IF /\ matchWord(s, p, INSERT) /\ a > p + Len(INSERT)
          /\ matchWord(s, a, INTO) /\ b > a + Len(INTO)
          /\ E # {}
       THEN afterName(s, Max(E) + 1, withCols)
       ELSE NoMatch

\* the matches of regex.exec(s) called in a loop, the search starting at index
\* from: each match is the leftmost one at or after the end of the last
RECURSIVE execAll(_, _, _)
execAll(s, from, withCols) ==
    LET P == {p \in from..Len(s) : matchInsert(s, p, withCols).ok}
    IN IF P = {} THEN <<>>
       ELSE LET m == matchInsert(s, Min(P), withCols)
            IN <<m>> \o execAll(s, m.end, withCols)

\* c.trim().replace(/^['"`]|['"`]$/g, '')
stripColumnQuotes(c) ==
    LET a == IF c # <<>> /\ Head(c) \in QuoteChars THEN Tail(c) ELSE c
    IN IF a # <<>> /\ a[Len(a)] \in QuoteChars THEN SubSeq(a, 1, Len(a) - 1) ELSE a

\* obj after cols.forEach((col, i) => obj[col] = row[i]) for the first n columns
RECURSIVE columnsObject(_, _, _)
columnsObject(cols, row, n) ==
    IF n = 0 THEN <<>> ELSE setProp(columnsObject(cols, row, n - 1), cols[n], row[n])

\* `col_${i+1}`
colName(i) == <<"c", "o", "l", "_">> \o NumToStr(i)

\* the records of one statement with a column list (lines 231-241)
recordsWithCols(m) ==
    LET parts == split(m.cols, COMMA)
        cols == [i \in 1..Len(parts) |-> stripColumnQuotes(trim(parts[i]))]
        rows == parseSQLValuesString(m.vals)
        kept == SelectSeq(rows, LAMBDA row : Len(row) = Len(cols))
    IN [i \in 1..Len(kept) |-> Rec(columnsObject(cols, kept[i], Len(cols)))]

\* the records of one statement without a column list (lines 251-257)
recordsNoCols(m) ==
    LET rows == parseSQLValuesString(m.vals)
        names(row) == [i \in 1..Len(row) |-> colName(i)]
    IN [i \in 1..Len(rows) |-> Rec(columnsObject(names(rows[i]), rows[i], Len(rows[i])))]

\* parseSQL without the early return after the first pattern
parseSQLBothShapes(txt) ==
    LET withCols == execAll(txt, 1, TRUE)
        noCols == execAll(txt, 1, FALSE)
    IN List(Concat([i \in 1..Len(withCols) |-> recordsWithCols(withCols[i])])
                \o Concat([i \in 1..Len(noCols) |-> recordsNoCols(noCols[i])]))

parseSQL(txt) ==
    LET withCols == execAll(txt, 1, TRUE)
        found == withCols # <<>>
        noCols == execAll(txt, 1, FALSE)
    IN IF found
       THEN List(Concat([i \in 1..Len(withCols) |-> recordsWithCols(withCols[i])]))
       ELSE List(Concat([i \in 1..Len(noCols) |-> recordsNoCols(noCols[i])]))

(***************************************************************************)
(* The SQL parser as a state machine: a caller holds a dump and parses it. *)
(* A dump is written from a sequence of statements, each with or without a *)
(* column list and with one or two tuples of literals.                     *)
(***************************************************************************)
\* literals as written, each with the value section 4.6 gives it
SqlLiterals ==
    {[txt |-> <<"1">>, val |-> Num(1)],
     [txt |-> <<SQ, "a", SQ>>, val |-> Str(<<"a">>)],
     [txt |-> <<"N", "U", "L", "L">>, val |-> Null],
     [txt |-> <<SQ, "b", SEMI, "c", SQ>>, val |-> Str(<<"b", SEMI, "c">>)],
     [txt |-> <<SQ, "d", SQ, SQ, "e", SQ>>, val |-> Str(<<"d", SQ, "e">>)]}
\* more scalars as written: quoted text that reads as a number, as NULL or has
\* white space at its ends, a double-quoted literal, a negative number, NULL in
\* lower case, a bare word
SqlScalarLiterals ==
    SqlLiterals \cup
    {[txt |-> <<SQ, "1", "2", SQ>>, val |-> Str(<<"1", "2">>)],
     [txt |-> <<SQ, "n", "u", "l", "l", SQ>>, val |-> Str(<<"n", "u", "l", "l">>)],
     [txt |-> <<SQ, SP, "a", SP, SQ>>, val |-> Str(<<SP, "a", SP>>)],
     [txt |-> <<DQ, "x", DQ>>, val |-> Str(<<"x">>)],
     [txt |-> <<"-", "3">>, val |-> Num(-3)],
     [txt |-> <<"n", "u", "l", "l">>, val |-> Null],
     [txt |-> <<"a", "b">>, val |-> Str(<<"a", "b">>)]}
SqlTuples == {<<x>> : x \in SqlLiterals} \cup {<<x, y>> : x \in SqlLiterals, y \in SqlLiterals}
SqlColumnLists == {<<(<<"a">>)>>, <<(<<"a">>), (<<"b">>)>>}
Statement(cols, tuples) == [cols |-> cols, tuples |-> tuples]
SqlStatements ==
    {Statement(c, ts) : c \in SqlColumnLists \cup {<<>>},
                        ts \in {<<t>> : t \in SqlTuples} \cup {<<t, u>> : t \in SqlTuples, u \in SqlTuples}}
\* statements of one tuple with one literal
SqlShortStatements ==
    {Statement(c, <<(<<x>>)>>) : c \in SqlColumnLists \cup {<<>>}, x \in SqlScalarLiterals}
SqlDumps ==
    {<<st>> : st \in SqlStatements \cup SqlShortStatements}
        \cup {<<st, su>> : st \in SqlShortStatements, su \in SqlShortStatements}

renderTuple(t) == <<LPAREN>> \o join([i \in 1..Len(t) |-> t[i].txt], <<COMMA, SP>>) \o <<RPAREN>>
renderStatement(st) ==
    <<"I", "N", "S", "E", "R", "T", SP, "I", "N", "T", "O", SP, "t", SP>>
        \o (IF st.cols = <<>> THEN <<>>
            ELSE <<LPAREN>> \o join(st.cols, <<COMMA, SP>>) \o <<RPAREN, SP>>)
        \o <<"V", "A", "L", "U", "E", "S", SP>>
        \o join([i \in 1..Len(st.tuples) |-> renderTuple(st.tuples[i])], <<COMMA, SP>>)
        \o <<SEMI>>
renderDump(d) == join([i \in 1..Len(d) |-> renderStatement(d[i])], <<NL>>)

\* texts without any INSERT statement
NoInsertTexts ==
    {<<>>, <<"C", "R", "E", "A", "T", "E", SP, "T", "A", "B", "L", "E", SP, "t", SP, LPAREN, "a", SP, "I", "N", "T", RPAREN, SEMI>>, <<"S", "E", "L", "E", "C", "T", SP, "1", SEMI>>}

InitSQL ==
    /\ delim = COMMA
    /\ table = <<>>
    /\ NoScan /\ NoApp /\ NoLoader
    /\ data = Undefined
    /\ \/ dump \in SqlDumps /\ text = renderDump(dump)
       \/ dump = <<>> /\ text \in NoInsertTexts
    /\ pc = "text"
    /\ parsed = Undefined
    /\ NoCall

\* parsed = parseSQL(text)
CallParseSQL ==
    /\ pc = "text"
    /\ parsed' = parseSQL(text)
    /\ pc' = "parsed"
    /\ UNCHANGED <<delim, table, data, dump, text, callVars, scanVars, appVars, loaderVars>>

NextSQL == CallParseSQL

SpecSQL == InitSQL /\ [][NextSQL]_vars

(***************************************************************************)
(* The tuple scan of parseSQLValuesString, one iteration of its loop at a  *)
(* time, on any string of parentheses, quotes, commas and letters.         *)
(***************************************************************************)
ScanAlphabet == {LPAREN, RPAREN, SQ, DQ, COMMA, "a"}
\* (1, 'a,b', f(x, y), 'it''s')
ScanExample ==
    <<LPAREN, "1", COMMA, SP, SQ, "a", COMMA, "b", SQ, COMMA, SP, "f", LPAREN, "x", COMMA, SP, "y",
      RPAREN, COMMA, SP, SQ, "i", "t", SQ, SQ, "s", SQ, RPAREN>>
ScanTexts(n) == Strs(ScanAlphabet, n) \cup {ScanExample}

InitScan ==
    /\ delim = COMMA
    /\ table = <<>>
    /\ data = Undefined
    /\ dump = <<>>
    /\ text \in ScanTexts(MaxScanLen)
    /\ parsed = Undefined
    /\ pc = "scan"
    /\ pos = 1
    /\ scan = ScanStart
    /\ NoCall /\ NoApp /\ NoLoader

\* one iteration of the for loop
ScanStep ==
    /\ pc = "scan"
    /\ pos <= Len(text)
    /\ LET r == scanChar(text, pos, scan)
       IN /\ scan' = r.st
          /\ pos' = IF r.skip THEN pos + 2 ELSE pos + 1
    /\ UNCHANGED <<pc, delim, table, data, dump, text, parsed, callVars, appVars, loaderVars>>

\* return rows
ScanReturn ==
    /\ pc = "scan"
    /\ pos > Len(text)
    /\ parsed' = List([i \in 1..Len(scan.rows) |-> List(scan.rows[i])])
    /\ pc' = "parsed"
    /\ UNCHANGED <<delim, table, data, dump, text, scanVars, callVars, appVars, loaderVars>>

NextScan == ScanStep \/ ScanReturn

SpecScan == InitScan /\ [][NextScan]_vars

\* the character the step reads
ScanChar == text[pos]
\* the step reads a parenthesis nested in a tuple
NestedParen ==
    /\ ~scan.inQuote
    /\ \/ ScanChar = LPAREN /\ scan.depth >= 1
       \/ ScanChar = RPAREN /\ scan.depth >= 2
\* the step ends the current scalar: it is cleaned and appended to the row
EndsScalar ==
    /\ scan'.currentRow = Append(scan.currentRow, cleanSQLVal(scan.currentVal))
    /\ scan'.currentVal = <<>>
\* the step keeps the character in the current scalar
KeepsChar ==
    /\ scan'.currentVal = Append(scan.currentVal, ScanChar)
    /\ scan'.currentRow = scan.currentRow
    /\ scan'.rows = scan.rows
\* the step reads a doubled quote of the kind that opened the literal
DoubledQuote ==
    /\ scan.inQuote /\ ScanChar = scan.quoteChar
    /\ pos < Len(text) /\ text[pos + 1] = scan.quoteChar

\* C22: the tuple tokenizer.  In one left-to-right scan a comma ends the
\* current scalar if and only if it is outside quotes and at depth 1; a comma
\* in a quoted literal or at depth > 1 and a parenthesis at depth > 1 are kept
\* in the current scalar; a doubled quote of the current kind is one literal
\* quote and does not end the literal; a tuple opens with an empty row and
\* closes with one more scalar, so it yields 1 + (unquoted depth-1 commas)
\* scalars; (1, 'a,b', f(x, y), 'it''s') yields 1, a,b, f(x, y) and it's.
C22_Tokenizer ==
    [][ScanStep =>
          /\ pos' > pos
          /\ ScanChar = COMMA =>
                /\ EndsScalar <=> (~scan.inQuote /\ scan.depth = 1)
                /\ (scan.inQuote \/ scan.depth > 1) => KeepsChar
                /\ scan'.rows = scan.rows /\ scan'.depth = scan.depth
          /\ NestedParen => KeepsChar
          /\ DoubledQuote =>
                /\ scan'.currentVal = Append(scan.currentVal, scan.quoteChar)
                /\ scan'.inQuote /\ scan'.quoteChar = scan.quoteChar
                /\ pos' = pos + 2
          /\ (~scan.inQuote /\ ScanChar = LPAREN /\ scan.depth = 0) =>
                scan'.currentRow = <<>> /\ scan'.currentVal = <<>>
          /\ scan'.rows # scan.rows =>
                /\ EndsScalar
                /\ scan'.rows = Append(scan.rows, scan'.currentRow)
          /\ (ScanChar # COMMA /\ scan'.rows = scan.rows) => scan'.currentRow \in {scan.currentRow, <<>>}
          /\ (text = ScanExample /\ pos' > Len(text)) =>
                scan'.rows = <<(<<Num(1), Str(<<"a", COMMA, "b">>),
                                  Str(<<"f", LPAREN, "x", COMMA, SP, "y", RPAREN>>),
                                  Str(<<"i", "t", SQ, "s">>)>>)>>]_vars

\* C22 witness: the scan of (1, 'a,b', f(x, y), 'it''s') has returned one row
\* of four scalars
C22_Witness ==
    /\ pc = "parsed"
    /\ text = ScanExample
    /\ Len(parsed.xs) = 1
    /\ Len(parsed.xs[1].xs) = 4

\* C28: in the tuple scan of any string the parenthesis depth is never
\* negative.
C28_DepthNeverNegative == pc = "scan" => scan.depth >= 0

(***************************************************************************)
(* Both text parsers on arbitrary texts: delimited texts with ragged lines *)
(* and INSERT statements whose tuple list is any string of parentheses,    *)
(* quotes, commas and digits.                                              *)
(***************************************************************************)
SqlTailAlphabet == {LPAREN, RPAREN, SQ, COMMA, "1"}
\* INSERT INTO t [(a)] VALUES <tail>; for every tail of at most n characters
AnomalousSqlTexts(n) ==
    {<<"I", "N", "S", "E", "R", "T", SP, "I", "N", "T", "O", SP, "t", SP>>
        \o c \o <<"V", "A", "L", "U", "E", "S", SP>> \o tail \o <<SEMI>> :
            c \in {<<>>, <<LPAREN, "a", RPAREN, SP>>}, tail \in Strs(SqlTailAlphabet, n)}

InitParsers ==
    /\ delim \in Delimiters
    /\ table = <<>>
    /\ NoScan /\ NoApp /\ NoLoader
    /\ data = Undefined
    /\ dump = <<>>
    /\ text \in CsvTexts(delim) \cup AnomalousSqlTexts(MaxSqlTail) \cup NoInsertTexts
    /\ pc = "text"
    /\ parsed = Undefined
    /\ NoCall

NextParsers == CallParseCSV \/ CallParseSQL

SpecParsers == InitParsers /\ [][NextParsers]_vars

\* C19: row-level anomalies never become call-level failures.  For every
\* input text, parseCSV with either delimiter and parseSQL return a list of
\* records and do not throw, whatever the field counts of the lines and
\* whatever the arity, quoting or parenthesis balance of the tuples.
C19_ParsersNeverThrow ==
    pc = "parsed" =>
        /\ parsed.t = "list"
        /\ \A i \in 1..Len(parsed.xs) : parsed.xs[i].t = "rec"

\* C19 witness: parseCSV has returned a padded row for a line with fewer
\* fields than the header
C19_Witness ==
    /\ pc = "parsed"
    /\ delim = COMMA
    /\ text = <<"a", COMMA, "b", NL, "a">>
    /\ parsed = List(<<Rec(<<Prop(<<"a">>, Str(<<"a">>)), Prop(<<"b">>, Str(<<>>))>>)>>)

\* C19 witness for parseSQL: a statement whose tuple list has an unclosed
\* quote and unbalanced parentheses has been parsed into a list
C19_WitnessSql ==
    /\ pc = "parsed"
    /\ text = <<"I", "N", "S", "E", "R", "T", SP, "I", "N", "T", "O", SP, "t", SP,
                "V", "A", "L", "U", "E", "S", SP, LPAREN, "1", RPAREN, RPAREN, SQ, SEMI>>
    /\ parsed.t = "list"
    /\ Len(parsed.xs) = 1

\* the VALUES tuples of a dump, in the order they appear in its text
DumpTuples(d) == Concat([i \in 1..Len(d) |-> d[i].tuples])
\* every tuple of a statement with a column list has one value per column
ArityMatches(d) ==
    \A i \in 1..Len(d) :
        d[i].cols # <<>> => \A j \in 1..Len(d[i].tuples) : Len(d[i].tuples[j]) = Len(d[i].cols)
\* all statements of the dump have the same form, with or without column list
OneForm(d) == \A i \in 1..Len(d) : (d[i].cols = <<>>) <=> (d[1].cols = <<>>)
ValuesOf(record) == [j \in 1..Len(record.kv) |-> record.kv[j].v]

\* C11: scalar coercion.  A scalar is coerced by the first rule that matches it
\* as written: a statement with the one tuple (x) yields one record whose value
\* is Null for NULL in any case, the Number for a number, the text between the
\* quotes for a quoted literal, and the trimmed text for anything else.
C11_ScalarCoercedAsWritten ==
    (pc = "parsed" /\ Len(dump) = 1 /\ ArityMatches(dump)
        /\ Len(DumpTuples(dump)) = 1 /\ Len(DumpTuples(dump)[1]) = 1
        /\ CountOccurrences(DumpTuples(dump)[1][1].txt, <<SEMI>>) = 0) =>
        /\ Len(parsed.xs) = 1
        /\ ValuesOf(parsed.xs[1]) = <<DumpTuples(dump)[1][1].val>>

\* C26: synthesized keys.  For INSERT statements without a column list, each
\* VALUES tuple yields a record whose keys are col_1, col_2, ..., col_k for its
\* k scalars, in tuple order, the records in the order of the tuples.
C26_PositionalKeys ==
    (pc = "parsed" /\ dump # <<>> /\ \A i \in 1..Len(dump) : dump[i].cols = <<>>) =>
        /\ Len(parsed.xs) = Len(DumpTuples(dump))
        /\ \A i \in 1..Len(parsed.xs) :
              Keys(parsed.xs[i].kv) =
                  [j \in 1..Len(DumpTuples(dump)[i]) |-> <<"c", "o", "l", "_">> \o NatToStr(j)]

\* the dump holds a statement with an explicit column list
HasColumnList(d) == \E i \in 1..Len(d) : d[i].cols # <<>>
\* a key of the form col_N
IsSynthesizedKey(k) ==
    /\ startsWith(k, <<"c", "o", "l", "_">>)
    /\ Len(k) > 4
    /\ \A i \in 5..Len(k) : IsDigit(k[i])

\* C12: shape precedence.  When the text holds at least one INSERT statement
\* with an explicit column list, no record of the result has a synthesized
\* col_N key, also when the text holds statements without column list and
\* when every row of the statements with column list was dropped.
C12_NoSynthesizedKeys ==
    (pc = "parsed" /\ HasColumnList(dump)) =>
        \A i \in 1..Len(parsed.xs) :
            \A j \in 1..Len(parsed.xs[i].kv) : ~IsSynthesizedKey(parsed.xs[i].kv[j].k)

\* C12 witness: a dump of a statement with column list whose only row was
\* dropped and a statement without column list has been parsed
C12_Witness ==
    /\ pc = "parsed"
    /\ Len(dump) = 2
    /\ dump[1].cols = <<>>
    /\ dump[2].cols # <<>>
    /\ ~ArityMatches(dump)
    /\ parsed = List(<<>>)

\* the tuples of a dump, each with the column list of its statement
ColumnTuples(d) ==
    Concat([i \in 1..Len(d) |->
              [j \in 1..Len(d[i].tuples) |-> [cols |-> d[i].cols, tuple |-> d[i].tuples[j]]]])
\* those with one scalar per column
MatchingTuples(d) == SelectSeq(ColumnTuples(d), LAMBDA e : Len(e.tuple) = Len(e.cols))
NoSemicolonInLiterals(d) ==
    \A i \in 1..Len(DumpTuples(d)) : \A j \in 1..Len(DumpTuples(d)[i]) :
        CountOccurrences(DumpTuples(d)[i][j].txt, <<SEMI>>) = 0

\* C13: arity drop.  In statements with an explicit column list, a tuple whose
\* scalar count differs from the column count contributes no record, and every
\* other tuple yields its record, keyed by the columns, in the order of the text
\* (checked for dumps whose tuples with the right count hold no semicolon).
C13_OnlyMismatchedTuplesDropped ==
    (pc = "parsed" /\ dump # <<>> /\ ~ArityMatches(dump)
        /\ (\A i \in 1..Len(dump) : dump[i].cols # <<>>)
        /\ NoSemicolonInLiterals(<<[cols |-> <<>>,
                tuples |-> [i \in 1..Len(MatchingTuples(dump)) |-> MatchingTuples(dump)[i].tuple]]>>)) =>
        /\ Len(parsed.xs) = Len(MatchingTuples(dump))
        /\ \A i \in 1..Len(parsed.xs) : Keys(parsed.xs[i].kv) = MatchingTuples(dump)[i].cols

\* C2: SQL row count. For a well-formed dump whose INSERT statements together
\* contain N VALUES tuples (string literals may contain any characters, the
\* quote character doubled), parseSQL returns exactly N records, record i
\* holding the values of the i-th tuple of the text.
C2_SqlRowCount ==
    (pc = "parsed" /\ dump # <<>> /\ ArityMatches(dump) /\ OneForm(dump)) =>
        /\ Len(parsed.xs) = Len(DumpTuples(dump))
        /\ \A i \in 1..Len(parsed.xs) :
              ValuesOf(parsed.xs[i]) = [j \in 1..Len(DumpTuples(dump)[i]) |-> DumpTuples(dump)[i][j].val]

(***************************************************************************)
(* JSON.parse and JSON.stringify, for texts whose numbers are integers and *)
(* whose strings use no escape other than \" \\ \/ \n \r \t.               *)
(***************************************************************************)
BACKSLASH == "\\"
LBRACE == "{"
RBRACE == "}"
LBRACKET == "["
RBRACKET == "]"
COLON == ":"
TrueWord == <<"t", "r", "u", "e">>
FalseWord == <<"f", "a", "l", "s", "e">>
NullWord == <<"n", "u", "l", "l">>

JsonFail == [ok |-> FALSE, v |-> Undefined, i |-> 0]
JsonOk(v, i) == [ok |-> TRUE, v |-> v, i |-> i]

\* the character an escape sequence stands for, "" when it is not one
unescapeChar(c) ==
    CASE c = DQ -> DQ
      [] c = BACKSLASH -> BACKSLASH
      [] c = SLASH -> SLASH
      [] c = "n" -> NL
      [] c = "r" -> CR
      [] c = "t" -> TAB
      [] OTHER -> ""

\* the characters of a string literal from index i, after its opening quote;
\* a control character in the literal is a syntax error
RECURSIVE jsonChars(_, _, _)
jsonChars(s, i, acc) ==
    IF i > Len(s) THEN JsonFail
    ELSE IF s[i] = DQ THEN JsonOk(Str(acc), i + 1)
    ELSE IF s[i] = BACKSLASH
    THEN IF i + 1 > Len(s) \/ unescapeChar(s[i + 1]) = "" THEN JsonFail
         ELSE jsonChars(s, i + 2, Append(acc, unescapeChar(s[i + 1])))
    ELSE IF s[i] \in {NL, CR, TAB} THEN JsonFail
    ELSE jsonChars(s, i + 1, Append(acc, s[i]))

RECURSIVE digitsEnd(_, _)
digitsEnd(s, i) == IF i <= Len(s) /\ IsDigit(s[i]) THEN digitsEnd(s, i + 1) ELSE i

\* an integer literal at index i: an optional minus sign, then 0 or a digit
\* sequence without leading zero
jsonNumber(s, i) ==
    LET d == IF s[i] = "-" THEN i + 1 ELSE i
        e == IF d <= Len(s) /\ s[d] = "0" THEN d + 1 ELSE digitsEnd(s, d)
    IN IF e = d THEN JsonFail
       ELSE JsonOk(Num(IF d > i THEN 0 - StrToNat(SubSeq(s, d, e - 1))
                       ELSE StrToNat(SubSeq(s, d, e - 1))), e)

RECURSIVE jsonValue(_, _), jsonMembers(_, _, _), jsonElements(_, _, _)
jsonValue(s, i) ==
    LET j == skipSpace(s, i)
    IN IF j > Len(s) THEN JsonFail
       ELSE IF s[j] = LBRACE
       THEN LET k == skipSpace(s, j + 1)
            IN IF k <= Len(s) /\ s[k] = RBRACE THEN JsonOk(Rec(<<>>), k + 1)
               ELSE jsonMembers(s, k, <<>>)
       ELSE IF s[j] = LBRACKET
       THEN LET k == skipSpace(s, j + 1)
            IN IF k <= Len(s) /\ s[k] = RBRACKET THEN JsonOk(List(<<>>), k + 1)
               ELSE jsonElements(s, k, <<>>)
       ELSE IF s[j] = DQ THEN jsonChars(s, j + 1, <<>>)
       ELSE IF s[j] = "-" \/ IsDigit(s[j]) THEN jsonNumber(s, j)
       ELSE IF occursAt(s, TrueWord, j) THEN JsonOk(Bool(TRUE), j + 4)
       ELSE IF occursAt(s, FalseWord, j) THEN JsonOk(Bool(FALSE), j + 5)
       ELSE IF occursAt(s, NullWord, j) THEN JsonOk(Null, j + 4)
       ELSE JsonFail

\* the members of an object from index i, at the first character of a key
jsonMembers(s, i, kv) ==
    IF i > Len(s) \/ s[i] # DQ THEN JsonFail
    ELSE LET key == jsonChars(s, i + 1, <<>>)
             c == skipSpace(s, key.i)
             val == jsonValue(s, c + 1)
             n == skipSpace(s, val.i)
             obj == setProp(kv, key.v.s, val.v)
         IN IF ~key.ok \/ c > Len(s) \/ s[c] # COLON THEN JsonFail
            ELSE IF ~val.ok \/ n > Len(s) THEN JsonFail
            ELSE IF s[n] = RBRACE THEN JsonOk(Rec(obj), n + 1)
            ELSE IF s[n] = COMMA THEN jsonMembers(s, skipSpace(s, n + 1), obj)
            ELSE JsonFail

\* the elements of an array from index i
jsonElements(s, i, xs) ==
    LET val == jsonValue(s, i)
        n == skipSpace(s, val.i)
    IN IF ~val.ok \/ n > Len(s) THEN JsonFail
       ELSE IF s[n] = RBRACKET THEN JsonOk(List(Append(xs, val.v)), n + 1)
       ELSE IF s[n] = COMMA THEN jsonElements(s, n + 1, Append(xs, val.v))
       ELSE JsonFail

\* JSON.parse(text): the value, or a SyntaxError thrown
JSONparse(txt) ==
    LET r == jsonValue(txt, 1)
    IN IF r.ok /\ skipSpace(txt, r.i) > Len(txt) THEN r.v ELSE Thrown("SyntaxError")

escapeJsonChar(c) ==
    CASE c = DQ -> <<BACKSLASH, DQ>>
      [] c = BACKSLASH -> <<BACKSLASH, BACKSLASH>>
      [] c = NL -> <<BACKSLASH, "n">>
      [] c = CR -> <<BACKSLASH, "r">>
      [] c = TAB -> <<BACKSLASH, "t">>
      [] OTHER -> <<c>>
quoteJson(str) == <<DQ>> \o Concat([i \in 1..Len(str) |-> escapeJsonChar(str[i])]) \o <<DQ>>

\* the text of v with gap as the indentation unit and indent as the current
\* indentation; v is not undefined
RECURSIVE serializeJson(_, _, _)
serializeJson(v, gap, indent) ==
    LET stepback == indent
        inner == indent \o gap
        sep == IF gap = <<>> THEN <<COMMA>> ELSE <<COMMA, NL>> \o inner
        wrap(open, parts, close) ==
            IF parts = <<>> THEN <<open, close>>
            ELSE IF gap = <<>> THEN <<open>> \o join(parts, sep) \o <<close>>
            ELSE <<open, NL>> \o inner \o join(parts, sep) \o <<NL>> \o stepback \o <<close>>
    IN CASE v.t = "str" -> quoteJson(v.s)
         [] v.t = "num" -> NumToStr(v.n)
         [] v.t = "bool" -> IF v.b THEN TrueWord ELSE FalseWord
         [] v.t = "null" -> NullWord
         [] v.t = "list" ->
               wrap(LBRACKET,
                    [i \in 1..Len(v.xs) |->
                        IF v.xs[i].t = "undefined" THEN NullWord
                        ELSE serializeJson(v.xs[i], gap, inner)],
                    RBRACKET)
         [] v.t = "rec" ->
               LET kept == SelectSeq(v.kv, LAMBDA e : e.v.t # "undefined")
               IN wrap(LBRACE,
                       [i \in 1..Len(kept) |->
                           quoteJson(kept[i].k) \o <<COLON>>
                               \o (IF gap = <<>> THEN <<>> ELSE <<SP>>)
                               \o serializeJson(kept[i].v, gap, inner)],
                       RBRACE)

\* JSON.stringify(value, null, space): Undefined for the value undefined
JSONstringify(v, space) ==
    IF v.t = "undefined" THEN Undefined
    ELSE Str(serializeJson(v, [i \in 1..space |-> SP], <<>>))

NullWordUpper == <<"N", "U", "L", "L">>

(***************************************************************************)
(* toSQL.                                                                  *)
(***************************************************************************)
\* s.replace(/[^a-zA-Z0-9_]/g, '_')
sanitizeSqlName(s) == [i \in 1..Len(s) |-> IF IsWordChar(s[i]) THEN s[i] ELSE "_"]

\* toSQL throws a TypeError when the first row is null or undefined
\* (Object.keys), or when a later row is and there is a column to read
toSQLThrows(d) ==
    LET arr == IF IsList(d) THEN d.xs ELSE <<d>>
    IN /\ Len(arr) > 0
       /\ \/ arr[1].t \in {"null", "undefined"}
          \/ /\ objectKeys(arr[1]) # <<>>
             /\ \E i \in 1..Len(arr) : arr[i].t \in {"null", "undefined"}

\* the literal of a value, a number in quotes like any other value
sqlLiteralQuoted(row, h) ==
    LET v == getMember(row, h)
    IN IF v.t \in {"null", "undefined"} THEN NullWordUpper
       ELSE <<SQ>> \o replaceChar(String(v), SQ, <<SQ, SQ>>) \o <<SQ>>

sqlLiteral(row, h) ==
    LET v == getMember(row, h)
    IN IF v.t = "num" THEN NumToStr(v.n)
       ELSE IF v.t \in {"null", "undefined"} THEN NullWordUpper
       ELSE <<SQ>> \o replaceChar(String(v), SQ, <<SQ, SQ>>) \o <<SQ>>

\* toSQL taking the columns from the keys of all rows
toSQLAllKeys(d, tableName) ==
    LET arr == IF IsList(d) THEN d.xs ELSE <<d>>
        safeTableName == sanitizeSqlName(tableName)
        headers == uniq(Concat([i \in 1..Len(arr) |-> objectKeys(arr[i])]))
        columns == join([i \in 1..Len(headers) |-> sanitizeSqlName(headers[i])], <<COMMA, SP>>)
        values == join([r \in 1..Len(arr) |->
                          <<LPAREN>>
                              \o join([i \in 1..Len(headers) |-> sqlLiteral(arr[r], headers[i])],
                                      <<COMMA, SP>>)
                              \o <<RPAREN>>],
                       <<COMMA, NL>>)
    IN IF Len(arr) = 0 THEN <<>>
       ELSE INSERT \o <<SP>> \o INTO \o <<SP>> \o safeTableName \o <<SP, LPAREN>> \o columns
                \o <<RPAREN, SP>> \o VALUES \o <<NL>> \o values \o <<SEMI>>

toSQL(d, tableName) ==
    LET arr == IF IsList(d) THEN d.xs ELSE <<d>>
        safeTableName == sanitizeSqlName(tableName)
        headers == objectKeys(arr[1])
        columns == join([i \in 1..Len(headers) |-> sanitizeSqlName(headers[i])], <<COMMA, SP>>)
        values == join([r \in 1..Len(arr) |->
                          <<LPAREN>>
                              \o join([i \in 1..Len(headers) |-> sqlLiteral(arr[r], headers[i])],
                                      <<COMMA, SP>>)
                              \o <<RPAREN>>],
                       <<COMMA, NL>>)
    IN IF Len(arr) = 0 THEN <<>>
       ELSE INSERT \o <<SP>> \o INTO \o <<SP>> \o safeTableName \o <<SP, LPAREN>> \o columns
                \o <<RPAREN, SP>> \o VALUES \o <<NL>> \o values \o <<SEMI>>

(***************************************************************************)
(* The SQL serializer as a state machine: a caller holds a value and a     *)
(* table name and serializes them with toSQL.                              *)
(***************************************************************************)
DOT == "."
OBrien == <<"O", SQ, "B", "r", "i", "e", "n">>
SqlOutValues == {Num(1), Num(-3), Null, Str(OBrien), Str(<<>>), Bool(TRUE)}
IdKey == <<"i", "d">>
NameKey == <<"n", "a", "m", "e">>
\* a key with characters that are not allowed in a column name
OddKey == <<"a", SP, "b", "-", "1">>
SqlOutRecords ==
    {Rec(<<Prop(k, v)>>) : k \in {IdKey, NameKey, OddKey}, v \in SqlOutValues}
        \cup {Rec(<<Prop(IdKey, v), Prop(NameKey, w)>>) : v \in SqlOutValues, w \in SqlOutValues}
\* a record, or a list of one or two records; the second record may lack keys
\* of the first and hold keys the first lacks
SqlOutDatasets ==
    SqlOutRecords
        \cup {List(<<>>)}
        \cup {List(<<r>>) : r \in SqlOutRecords}
        \cup {List(<<r, q>>) : r \in SqlOutRecords, q \in SqlOutRecords}
TableNames == {<<"u", "s", "e", "r", "s">>, <<"m", "y", "-", "t", DOT, "1">>}

InitToSQL ==
    /\ delim = COMMA
    /\ table \in TableNames
    /\ NoScan /\ NoApp /\ NoLoader
    /\ data \in SqlOutDatasets
    /\ dump = <<>>
    /\ text = <<>>
    /\ parsed = Undefined
    /\ pc = "value"
    /\ NoCall

\* text = toSQL(data, table)
CallToSQL ==
    /\ pc = "value"
    /\ ~toSQLThrows(data)
    /\ text' = toSQL(data, table)
    /\ pc' = "text"
    /\ UNCHANGED <<delim, table, data, dump, parsed, callVars, scanVars, appVars, loaderVars>>

NextToSQL == CallToSQL

SpecToSQL == InitToSQL /\ [][NextToSQL]_vars

RowsOf(d) == IF IsList(d) THEN d.xs ELSE <<d>>
\* the literal the rendering rule gives a value
RenderedValue(v) ==
    CASE v.t = "num" -> NumToStr(v.n)
      [] v.t \in {"null", "undefined"} -> <<"N", "U", "L", "L">>
      [] OTHER -> <<SQ>> \o replaceChar(String(v), SQ, <<SQ, SQ>>) \o <<SQ>>
\* the tuple of a row, for the columns of the first row
RenderedTuple(row, first) ==
    <<LPAREN>>
        \o join([i \in 1..Len(first.kv) |-> RenderedValue(getProp(row.kv, first.kv[i].k))],
                <<COMMA, SP>>)
        \o <<RPAREN>>
\* the text after "VALUES" and a line feed, without the closing semicolon
TuplesPart(txt) ==
    LET i == CHOOSE k \in 1..Len(txt) : occursAt(txt, VALUES \o <<NL>>, k)
    IN SubSeq(txt, i + 7, Len(txt) - 1)

\* C14: value rendering.  toSQL renders each value of a tuple by its type: a
\* Number unquoted, Null or a key absent from the record as unquoted NULL, any
\* other value as its string form in single quotes with each ' doubled; the
\* tuples are joined by a comma and a line feed, and [{id:1,name:"O'Brien"}]
\* with table users gives INSERT INTO users (id, name) VALUES\n(1, 'O''Brien');
C14_ValuesRenderedByType ==
    (pc = "text" /\ RowsOf(data) # <<>>) =>
        /\ TuplesPart(text) =
              join([r \in 1..Len(RowsOf(data)) |-> RenderedTuple(RowsOf(data)[r], RowsOf(data)[1])],
                   <<COMMA, NL>>)
        /\ text[Len(text)] = SEMI
        /\ (data = List(<<Rec(<<Prop(IdKey, Num(1)), Prop(NameKey, Str(OBrien))>>)>>)
                /\ table = <<"u", "s", "e", "r", "s">>) =>
              text = INSERT \o <<SP>> \o INTO \o <<SP, "u", "s", "e", "r", "s", SP, LPAREN>>
                        \o IdKey \o <<COMMA, SP>> \o NameKey \o <<RPAREN, SP>> \o VALUES
                        \o <<NL, LPAREN, "1", COMMA, SP, SQ, "O", SQ, SQ, "B", "r", "i", "e", "n", SQ, RPAREN, SEMI>>

\* C14 witness: a list whose second record lacks a key of the first and holds
\* a number, a null and a string with a quote has been serialized
C14_Witness ==
    /\ pc = "text"
    /\ data = List(<<Rec(<<Prop(IdKey, Num(1)), Prop(NameKey, Str(OBrien))>>),
                     Rec(<<Prop(NameKey, Null)>>)>>)
    /\ TuplesPart(text) =
          <<LPAREN, "1", COMMA, SP, SQ, "O", SQ, SQ, "B", "r", "i", "e", "n", SQ, RPAREN, COMMA, NL,
            LPAREN, "N", "U", "L", "L", COMMA, SP, "N", "U", "L", "L", RPAREN>>

\* the round trip: a caller serializes a list of records with toSQL and parses
\* the text with parseSQL
RoundTripValues ==
    {Num(1), Num(-3), Null, Str(OBrien), Str(<<>>), Str(<<"1", "2">>), Str(<<"n", "u", "l", "l">>),
     Str(<<"a", SEMI, "b">>), Str(<<SP, "a">>), Str(<<"a", COMMA, "b">>), Str(<<LPAREN>>)}
RoundTripFewValues == {Num(1), Null, Str(OBrien)}
\* non-empty lists of records that share one key set
RoundTripDatasets ==
    {List(<<Rec(<<Prop(IdKey, v)>>)>>) : v \in RoundTripValues}
        \cup {List(<<Rec(<<Prop(IdKey, v)>>), Rec(<<Prop(IdKey, w)>>)>>) :
                  v \in RoundTripValues, w \in RoundTripValues}
        \cup {List(<<Rec(<<Prop(IdKey, v), Prop(NameKey, w)>>)>>) :
                  v \in RoundTripValues, w \in RoundTripValues}
        \cup {List(<<Rec(<<Prop(IdKey, v), Prop(NameKey, w)>>),
                      Rec(<<Prop(IdKey, x), Prop(NameKey, y)>>)>>) :
                  v \in RoundTripFewValues, w \in RoundTripFewValues,
                  x \in RoundTripFewValues, y \in RoundTripFewValues}

InitSqlRoundTrip ==
    /\ delim = COMMA
    /\ table \in TableNames
    /\ NoScan /\ NoApp /\ NoLoader
    /\ data \in RoundTripDatasets
    /\ dump = <<>>
    /\ text = <<>>
    /\ parsed = Undefined
    /\ pc = "value"
    /\ NoCall

NextSqlRoundTrip == CallToSQL \/ CallParseSQL

SpecSqlRoundTrip == InitSqlRoundTrip /\ [][NextSqlRoundTrip]_vars

\* C27: SQL round trip.  For a non-empty list r of records that share one key
\* set of names in [A-Za-z0-9_], with string, number or null values,
\* parseSQL(toSQL(r, t)) has the records of r in the same order, each with the
\* same keys, every number, null and string equal to the original.
C27_SqlRoundTrip ==
    (pc = "parsed" /\ data # Undefined) => parsed = data

\* the text between the parentheses that follow the table name
ColumnsPart(txt) ==
    LET i == CHOOSE k \in 1..Len(txt) : txt[k] = LPAREN
        j == CHOOSE k \in 1..Len(txt) : occursAt(txt, <<RPAREN, SP>> \o VALUES, k)
    IN SubSeq(txt, i + 1, j - 1)
\* the value a literal of toSQL stands for
ValueWritten(row, k) ==
    IF ~hasKey(row.kv, k) THEN Null
    ELSE LET v == getProp(row.kv, k)
         IN IF v.t \in {"num", "null"} THEN v ELSE Str(String(v))
\* the keys of the rows after the first that the first row lacks
LaterOnlyKeys(rows) ==
    UNION {{rows[r].kv[i].k : i \in 1..Len(rows[r].kv)} : r \in 2..Len(rows)}
        \ {rows[1].kv[i].k : i \in 1..Len(rows[1].kv)}

\* C21: toSQL takes the column list from the keys of the first record only.
\* The column list is the keys of the first record; every emitted tuple has as
\* many values as the column list, in column order; a later record lacking a
\* column has NULL there; a key only later records hold is nowhere in the text.
C21_ColumnsFromFirstRecord ==
    (pc = "text" /\ RowsOf(data) # <<>>) =>
        LET rows == RowsOf(data)
            cols == Keys(rows[1].kv)
            tuples == parseSQLValuesString(TuplesPart(text))
        IN /\ ColumnsPart(text) = join([i \in 1..Len(cols) |-> sanitizeSqlName(cols[i])], <<COMMA, SP>>)
           /\ Len(tuples) = Len(rows)
           /\ \A r \in 1..Len(rows) :
                 /\ Len(tuples[r]) = Len(cols)
                 /\ \A i \in 1..Len(cols) : tuples[r][i] = ValueWritten(rows[r], cols[i])
           /\ \A k \in LaterOnlyKeys(rows) :
                 ~Occurs(text, k) /\ ~Occurs(text, sanitizeSqlName(k))

\* C21 witness: a list whose first record has the keys id and name and whose
\* second record has only a key the first lacks has been serialized
C21_Witness ==
    /\ pc = "text"
    /\ table = <<"u", "s", "e", "r", "s">>
    /\ data = List(<<Rec(<<Prop(IdKey, Num(1)), Prop(NameKey, Str(OBrien))>>),
                     Rec(<<Prop(OddKey, Num(-3))>>)>>)
    /\ text = INSERT \o <<SP>> \o INTO \o <<SP, "u", "s", "e", "r", "s", SP, LPAREN>>
                \o IdKey \o <<COMMA, SP>> \o NameKey \o <<RPAREN, SP>> \o VALUES
                \o <<NL, LPAREN, "1", COMMA, SP, SQ, "O", SQ, SQ, "B", "r", "i", "e", "n", SQ, RPAREN,
                     COMMA, NL, LPAREN, "N", "U", "L", "L", COMMA, SP, "N", "U", "L", "L", RPAREN, SEMI>>

(***************************************************************************)
(* convertDataFile: read the file, parse it into a value, serialize the    *)
(* value in the target format.                                             *)
(***************************************************************************)
Ext(e) == <<DOT>> \o e

\* jsYaml.load and XLSX.read/sheet_to_json are library code: the value they
\* return for a file, or the exception they throw, is the environment's.
YamlDocuments ==
    {Undefined, Rec(<<Prop(<<"a">>, Num(1))>>), List(<<Rec(<<Prop(<<"a">>, Str(<<"x">>))>>)>>),
     Thrown("YAMLException")}
XlsxSheets ==
    {List(<<>>), List(<<Rec(<<Prop(<<"a">>, Num(1))>>), Rec(<<Prop(<<"a">>, Str(<<"x">>))>>)>>),
     Thrown("Error")}
Environments ==
    [errorDocument : ParserErrorDocuments, yaml : YamlDocuments, sheet : XlsxSheets]

isBinaryInput(name) ==
    endsWith(name, Ext(<<"x", "l", "s", "x">>)) \/ endsWith(name, Ext(<<"x", "l", "s">>))

\* t.match(/A\s+B/i): the words A and B, in any case, with white space between
matchesWords(t, A, B) ==
    \E i \in 1..Len(t) :
        /\ matchWord(t, i, A)
        /\ LET j == skipSpace(t, i + Len(A))
           IN j > i + Len(A) /\ matchWord(t, j, B)

CREATE == <<"C", "R", "E", "A", "T", "E">>
TABLE == <<"T", "A", "B", "L", "E">>

\* the parser chosen by the look of the text alone, whatever the name
parserOfContent(name, txt) ==
    LET t == trim(txt)
    IN IF isBinaryInput(name) THEN "parseXLSX"
       ELSE IF startsWith(t, <<LBRACE>>) \/ startsWith(t, <<LBRACKET>>) THEN "JSON.parse"
       ELSE IF startsWith(t, <<LT>>) THEN "parseXML"
       ELSE IF matchesWords(t, INSERT, INTO) \/ matchesWords(t, CREATE, TABLE) THEN "parseSQL"
       ELSE "parseCSV"

\* the parser the file goes to: by the extension of its name, else by the
\* look of its text
parserOf(name, txt) ==
    LET t == trim(txt)
    IN IF isBinaryInput(name) THEN "parseXLSX"
       ELSE IF endsWith(name, Ext(<<"j", "s", "o", "n">>)) THEN "JSON.parse"
       ELSE IF endsWith(name, Ext(<<"c", "s", "v">>)) THEN "parseCSV"
       ELSE IF endsWith(name, Ext(<<"y", "a", "m", "l">>)) \/ endsWith(name, Ext(<<"y", "m", "l">>))
       THEN "jsYaml.load"
       ELSE IF endsWith(name, Ext(<<"x", "m", "l">>)) THEN "parseXML"
       ELSE IF endsWith(name, Ext(<<"t", "s", "v">>)) THEN "parseTSV"
       ELSE IF endsWith(name, Ext(<<"s", "q", "l">>)) THEN "parseSQL"
       ELSE IF startsWith(t, <<LBRACE>>) \/ startsWith(t, <<LBRACKET>>) THEN "JSON.parse"
       ELSE IF startsWith(t, <<LT>>) THEN "parseXML"
       ELSE IF matchesWords(t, INSERT, INTO) \/ matchesWords(t, CREATE, TABLE) THEN "parseSQL"
       ELSE "parseCSV"

\* the value of the try block, or what it throws
parseInput(name, txt, env) ==
    LET parser == parserOf(name, txt)
    IN CASE parser = "parseXLSX" -> env.sheet
         [] parser = "JSON.parse" -> JSONparse(txt)
         [] parser = "parseCSV" -> parseCSV(txt, COMMA)
         [] parser = "jsYaml.load" -> env.yaml
         [] parser = "parseXML" -> parseXML(txt, env.errorDocument)
         [] parser = "parseTSV" -> parseCSV(txt, TAB)
         [] parser = "parseSQL" -> parseSQL(txt)

Serialized(output, mime, ext) == [thrown |-> "", output |-> output, mime |-> mime, ext |-> ext]
Throws(what) == [thrown |-> what, output |-> TextBlob(<<>>), mime |-> "", ext |-> <<>>]

\* new Blob([output]): the text of a string, "undefined" for undefined
blobOf(v) == TextBlob(String(v))

TableName == <<"t", "a", "b", "l", "e", "_", "n", "a", "m", "e">>
\* file.name.split('.')[0] || 'table_name'
tableNameOf(name) == IF split(name, DOT)[1] = <<>> THEN TableName ELSE split(name, DOT)[1]

\* the conversion types the switch has a case for
DataTypes ==
    {"DATA_TO_CSV", "DATA_TO_JSON", "DATA_PRETTIFY", "DATA_MINIFY", "DATA_TO_YAML",
     "DATA_TO_XML", "DATA_TO_TSV", "DATA_TO_SQL", "DATA_TO_XLSX"}

\* the cases of the switch on the conversion type
serializeCase(d, ty, name) ==
    CASE ty = "DATA_TO_CSV" ->
            IF toCSVThrows(d) THEN Throws("TypeError")
            ELSE Serialized(TextBlob(toCSV(d, COMMA)), "text/csv", <<"c", "s", "v">>)
      [] ty \in {"DATA_TO_JSON", "DATA_PRETTIFY"} ->
            Serialized(blobOf(JSONstringify(d, 2)), "application/json", <<"j", "s", "o", "n">>)
      [] ty = "DATA_MINIFY" ->
            Serialized(blobOf(JSONstringify(d, 0)), "application/json", <<"j", "s", "o", "n">>)
      [] ty = "DATA_TO_YAML" ->
            IF d.t = "undefined" THEN Throws("YAMLException")
            ELSE Serialized(CodecBlob("yaml", d), "text/yaml", <<"y", "a", "m", "l">>)
      [] ty = "DATA_TO_XML" ->
            Serialized(TextBlob(toXML(d, RootName)), "application/xml", <<"x", "m", "l">>)
      [] ty = "DATA_TO_TSV" ->
            IF toCSVThrows(d) THEN Throws("TypeError")
            ELSE Serialized(TextBlob(toCSV(d, TAB)), "text/tab-separated-values", <<"t", "s", "v">>)
      [] ty = "DATA_TO_SQL" ->
            IF toSQLThrows(d) THEN Throws("TypeError")
            ELSE Serialized(TextBlob(toSQL(d, tableNameOf(name))), "application/sql", <<"s", "q", "l">>)
      [] ty = "DATA_TO_XLSX" ->
            Serialized(CodecBlob("xlsx", IF IsList(d) THEN d ELSE List(<<d>>)),
                       "application/vnd.openxmlformats-officedocument.spreadsheetml.sheet",
                       <<"x", "l", "s", "x">>)

\* the switch without its default clause: output, mime and ext keep their
\* initial values
serializeWithoutDefault(d, ty, name) ==
    IF ty \in DataTypes THEN serializeCase(d, ty, name)
    ELSE Serialized(TextBlob(<<>>), "text/plain", <<"t", "x", "t">>)

\* the switch on the conversion type
serialize(d, ty, name) ==
    IF ty \in DataTypes THEN serializeCase(d, ty, name)
    ELSE Throws("Unsupported data conversion")

\* file.name.split('.').slice(0, -1).join('.') + '.' + ext
outputName(name, ext) ==
    LET parts == split(name, DOT)
    IN join(SubSeq(parts, 1, Len(parts) - 1), <<DOT>>) \o <<DOT>> \o ext

\* conversion types of the application that the data converter does not know
OtherTypes == {"JSON_TO_CSV", "IMAGE_TO_PNG"}
ConversionTypes == DataTypes \cup OtherTypes

FileNames ==
    {<<"d">> \o Ext(<<"j", "s", "o", "n">>), <<"d">> \o Ext(<<"c", "s", "v">>),
     <<"d">> \o Ext(<<"y", "a", "m", "l">>), <<"d">> \o Ext(<<"y", "m", "l">>),
     <<"d">> \o Ext(<<"x", "m", "l">>), <<"d">> \o Ext(<<"t", "s", "v">>),
     <<"d">> \o Ext(<<"s", "q", "l">>), <<"d">> \o Ext(<<"x", "l", "s", "x">>),
     <<"d">> \o Ext(<<"x", "l", "s">>), <<"d">> \o Ext(<<"t", "x", "t">>),
     <<"d">>, Ext(<<"c", "s", "v">>), <<"a", DOT, "b">> \o Ext(<<"x", "m", "l">>)}

JsonObjectText == <<LBRACE, DQ, "a", DQ, COLON, "1", RBRACE>>
JsonListText ==
    <<SP, LBRACKET, LBRACE, DQ, "a", DQ, COLON, DQ, "x", DQ, RBRACE, COMMA, "n", "u", "l", "l", RBRACKET>>
JsonBrokenText == <<LBRACE, DQ, "a", DQ, COLON>>
CsvText == <<"a", COMMA, "b", NL, "1", COMMA, "2">>
TsvText == <<"a", TAB, "b", NL, "1", TAB, "2">>
XmlText == <<LT, "r", GT, LT, "a", GT, "1", LT, SLASH, "a", GT, LT, SLASH, "r", GT>>
XmlUnbalancedText == <<LT, "r", GT, LT, "a", GT, "1", LT, SLASH, "r", GT>>
XmlInvalidTagText == <<LT, "r", GT, LT, LT, SLASH, "r", GT>>
SqlInsertText == renderStatement(Statement(<<(<<"a">>)>>, <<(<<[txt |-> <<"1">>, val |-> Num(1)]>>)>>))
SqlCreateText == <<"c", "r", "e", "a", "t", "e", SP, SP, "T", "A", "B", "L", "E", SP, "t", SP, LPAREN, "a", SP, "I", "N", "T", RPAREN, SEMI>>
SqlCommentText == <<"-", "-", SP, "d", "u", "m", "p">>
XmlWithInsertText ==
    <<NL, LT, "a", GT, "i", "n", "s", "e", "r", "t", SP, "I", "N", "T", "O", LT, SLASH, "a", GT>>
FileTexts ==
    {<<>>, XmlWithInsertText, JsonObjectText, JsonListText, JsonBrokenText, CsvText, TsvText, XmlText,
     XmlUnbalancedText, XmlInvalidTagText, SqlInsertText, SqlCreateText, SqlCommentText}
Files == [name : FileNames, text : FileTexts]

InitConvert ==
    /\ delim = COMMA
    /\ table = <<>>
    /\ NoScan /\ NoApp /\ NoLoader
    /\ data = Undefined
    /\ dump = <<>>
    /\ text = <<>>
    /\ parsed = Undefined
    /\ pc = "start"
    /\ file \in Files
    /\ type \in ConversionTypes
    /\ result = NoResult
    /\ error = <<>>
    /\ calls = <<>>

\* await file.arrayBuffer() / await file.text()
ReadFile ==
    /\ pc = "start"
    /\ text' = file.text
    /\ calls' = Append(calls, IF isBinaryInput(file.name) THEN "file.arrayBuffer" ELSE "file.text")
    /\ pc' = "read"
    /\ UNCHANGED <<delim, table, data, dump, parsed, file, type, result, error, scanVars, appVars, loaderVars>>

\* the rest of the try block and its catch clause
ParseInput ==
    /\ pc = "read"
    /\ \E env \in Environments :
          LET value == parseInput(file.name, text, env)
          IN IF IsThrown(value)
             THEN /\ error' = <<"Failed to parse input file", value.what>>
                  /\ pc' = "failed"
                  /\ data' = data
             ELSE /\ data' = value
                  /\ pc' = "parsed"
                  /\ error' = error
    /\ calls' = Append(calls, parserOf(file.name, text))
    /\ UNCHANGED <<delim, table, dump, text, parsed, file, type, result, scanVars, appVars, loaderVars>>

\* the switch, then the blob and the name of the result
Serialize ==
    /\ pc = "parsed"
    /\ LET out == serialize(data, type, file.name)
       IN IF out.thrown # ""
          THEN /\ error' = IF out.thrown = "Unsupported data conversion"
                           THEN <<out.thrown, type>> ELSE <<out.thrown>>
               /\ pc' = "failed"
               /\ result' = result
               /\ calls' = calls
          ELSE /\ result' = [name |-> outputName(file.name, out.ext), mime |-> out.mime,
                             output |-> out.output]
               /\ pc' = "done"
               /\ error' = error
               /\ calls' = Append(calls, type)
    /\ UNCHANGED <<delim, table, data, dump, text, parsed, file, type, scanVars, appVars, loaderVars>>

NextConvert == ReadFile \/ ParseInput \/ Serialize

SpecConvert == InitConvert /\ [][NextConvert]_vars

CallEnded == pc \in {"done", "failed"}
ParseFailure == "Failed to parse input file"
Unsupported == "Unsupported data conversion"

\* C4 (as stated): an unrecognized conversion type makes convertDataFile fail
\* with the 'Unsupported data conversion' error before the input is read or
\* parsed: for every input the call ends in that error and no parser is invoked.
C4_UnknownTypeFailsBeforeParsing ==
    (type \in OtherTypes /\ CallEnded) =>
        /\ pc = "failed"
        /\ error = <<Unsupported, type>>
        /\ calls = <<>>

\* C4 (amended): an unrecognized conversion type never yields a result, but the
\* call fails only after the input was read and handed to its parser: with
\* 'Failed to parse input file' when the parser throws, and with 'Unsupported
\* data conversion' once the input is parsed; no serializer is invoked.
C4_UnknownTypeFailsAfterParsing ==
    type \in OtherTypes =>
        /\ pc # "done"
        /\ result = NoResult
        /\ pc = "failed" =>
              /\ Len(calls) = 2
              /\ calls[1] \in {"file.text", "file.arrayBuffer"}
              /\ calls[2] = parserOf(file.name, text)
              /\ \/ error = <<Unsupported, type>>
                 \/ Len(error) = 2 /\ error[1] = ParseFailure

\* C4 witness: a call with an unrecognized type has failed with 'Unsupported
\* data conversion' after its input was read and parsed
C4_Witness ==
    /\ type \in OtherTypes
    /\ pc = "failed"
    /\ error = <<Unsupported, type>>
    /\ calls = <<"file.text", "JSON.parse">>
    /\ data = Rec(<<Prop(<<"a">>, Num(1))>>)

\* the text holds no INSERT statement either pattern of parseSQL matches
NoInsertStatement(txt) == execAll(txt, 1, TRUE) = <<>> /\ execAll(txt, 1, FALSE) = <<>>

\* C5: when the source is detected as SQL and its text holds no matching INSERT
\* statement, the call fails with an error; it does not complete with an empty
\* dataset or an empty output.
C5_SqlWithoutInsertAborts ==
    (CallEnded /\ Len(calls) >= 2 /\ calls[2] = "parseSQL" /\ NoInsertStatement(text)) =>
        /\ pc = "failed"
        /\ error # <<>>

\* C6: malformed XML input fails the whole parse: the call ends in the 'Failed
\* to parse input file' error and produces no output from an error document.
C6_MalformedXmlFails ==
    (CallEnded /\ Len(calls) >= 2 /\ calls[2] = "parseXML" /\ ~parseFromString(text).ok
        /\ type \in DataTypes) =>
        /\ pc = "failed"
        /\ Len(error) = 2 /\ error[1] = ParseFailure

\* the index of the last dot of a name, 0 when it has none
LastDot(name) ==
    IF \E i \in 1..Len(name) : name[i] = DOT
    THEN CHOOSE i \in 1..Len(name) : name[i] = DOT /\ \A k \in (i + 1)..Len(name) : name[k] # DOT
    ELSE 0
\* the extension of a name: what follows its last dot
ExtensionOf(name) == IF LastDot(name) = 0 THEN <<>> ELSE SubSeq(name, LastDot(name) + 1, Len(name))
\* the name without its extension
StemOf(name) == IF LastDot(name) = 0 THEN name ELSE SubSeq(name, 1, LastDot(name) - 1)

\* the table of extensions and MIME types by conversion type
FormatTable(ty) ==
    CASE ty = "DATA_TO_CSV" -> [ext |-> <<"c", "s", "v">>, mime |-> "text/csv"]
      [] ty = "DATA_TO_TSV" -> [ext |-> <<"t", "s", "v">>, mime |-> "text/tab-separated-values"]
      [] ty \in {"DATA_TO_JSON", "DATA_PRETTIFY", "DATA_MINIFY"} ->
            [ext |-> <<"j", "s", "o", "n">>, mime |-> "application/json"]
      [] ty = "DATA_TO_YAML" -> [ext |-> <<"y", "a", "m", "l">>, mime |-> "text/yaml"]
      [] ty = "DATA_TO_XML" -> [ext |-> <<"x", "m", "l">>, mime |-> "application/xml"]
      [] ty = "DATA_TO_SQL" -> [ext |-> <<"s", "q", "l">>, mime |-> "application/sql"]
      [] ty = "DATA_TO_XLSX" ->
            [ext |-> <<"x", "l", "s", "x">>,
             mime |-> "application/vnd.openxmlformats-officedocument.spreadsheetml.sheet"]

\* C15: output name and MIME type.  For every recognized conversion type and
\* every source file name, the name of the result is the source name with its
\* extension replaced by the extension of the table, the rest of the name being
\* kept, and the MIME type of the payload is the one of the table.
C15_NameAndMimeFromTable ==
    pc = "done" =>
        /\ result.name = StemOf(file.name) \o <<DOT>> \o FormatTable(type).ext
        /\ result.mime = FormatTable(type).mime

\* the two words, in any letter case, with white space and nothing else between
HasWords(t, A, B) ==
    \E i \in 1..Len(t) : \E j \in (i + Len(A) + 1)..Len(t) :
        /\ j + Len(B) - 1 <= Len(t)
        /\ toUpperCase(SubSeq(t, i, i + Len(A) - 1)) = A
        /\ toUpperCase(SubSeq(t, j, j + Len(B) - 1)) = B
        /\ \A k \in (i + Len(A))..(j - 1) : IsSpace(t[k])
\* the source format by the rule of the sniffer
ExpectedParser(name, txt) ==
    LET e == ExtensionOf(name)
        t == trim(txt)
    IN CASE e = <<"j", "s", "o", "n">> -> "JSON.parse"
         [] e = <<"c", "s", "v">> -> "parseCSV"
         [] e = <<"t", "s", "v">> -> "parseTSV"
         [] e = <<"x", "m", "l">> -> "parseXML"
         [] e \in {<<"y", "a", "m", "l">>, <<"y", "m", "l">>} -> "jsYaml.load"
         [] e = <<"s", "q", "l">> -> "parseSQL"
         [] e \in {<<"x", "l", "s", "x">>, <<"x", "l", "s">>} -> "parseXLSX"
         [] OTHER ->
               IF t # <<>> /\ t[1] \in {LBRACE, LBRACKET} THEN "JSON.parse"
               ELSE IF t # <<>> /\ t[1] = LT THEN "parseXML"
               ELSE IF HasWords(t, INSERT, INTO) \/ HasWords(t, CREATE, TABLE) THEN "parseSQL"
               ELSE "parseCSV"

\* C16: source-format selection.  A recognized extension alone decides the
\* parser, whatever the content; otherwise the trimmed text decides: a leading
\* { or [ gives JSON, else a leading < gives XML, else INSERT\s+INTO or
\* CREATE\s+TABLE anywhere gives SQL, else CSV.  A spreadsheet is read as bytes,
\* never as text, and every other file as text.
C16_FormatSelection ==
    /\ Len(calls) >= 1 =>
          (calls[1] = "file.arrayBuffer") = (ExpectedParser(file.name, file.text) = "parseXLSX")
    /\ Len(calls) >= 1 => calls[1] \in {"file.arrayBuffer", "file.text"}
    /\ Len(calls) >= 2 => calls[2] = ExpectedParser(file.name, file.text)

\* C16 witness: a file without recognized extension whose text begins with <
\* and holds INSERT INTO went to the XML parser, and the same text under the
\* name d.sql would not
C16_Witness ==
    /\ file = [name |-> <<"d">> \o Ext(<<"t", "x", "t">>), text |-> XmlWithInsertText]
    /\ calls = <<"file.text", "parseXML">>
    /\ ExpectedParser(<<"d">> \o Ext(<<"s", "q", "l">>), XmlWithInsertText) = "parseSQL"

(***************************************************************************)
(* The application: the list of file items and processConversion.          *)
(***************************************************************************)
\* ConversionStatus
IDLE == "IDLE"
PROCESSING == "PROCESSING"
COMPLETED == "COMPLETED"
FAILED == "FAILED"

\* a file item as handleFileChange creates it
NewItem(id) ==
    [id |-> id, status |-> IDLE, resultUrl |-> Undefined, resultName |-> Undefined,
     error |-> Undefined]

\* what the converter's promise settles with: a result, an Error with a
\* message, or an event (img.onerror = (e) => reject(e)), which has no message
Resolved == [settled |-> "resolved", url |-> Str(<<"u">>), name |-> Str(<<"n">>)]
RejectedError == [settled |-> "rejected", message |-> Str(<<"m">>)]
RejectedEvent == [settled |-> "rejected", message |-> Undefined]
Outcomes == {Resolved, RejectedError, RejectedEvent}

\* prev.map(f => f.id === id ? {...f, status: PROCESSING} : f)
setProcessing(fs, id) ==
    [i \in 1..Len(fs) |-> IF fs[i].id = id THEN [fs[i] EXCEPT !.status = PROCESSING] ELSE fs[i]]

\* the update after the await without the catch clause: a rejection leaves
\* the list as it is
settleUpdateNoCatch(fs, id, outcome) ==
    [i \in 1..Len(fs) |->
        IF fs[i].id # id \/ outcome.settled # "resolved" THEN fs[i]
        ELSE [fs[i] EXCEPT !.status = COMPLETED, !.resultUrl = outcome.url,
                           !.resultName = outcome.name]]

\* the update after the await: COMPLETED with the result, or in the catch
\* clause FAILED with the message of what was thrown
settleUpdate(fs, id, outcome) ==
    [i \in 1..Len(fs) |->
        IF fs[i].id # id THEN fs[i]
        ELSE IF outcome.settled = "resolved"
        THEN [fs[i] EXCEPT !.status = COMPLETED, !.resultUrl = outcome.url,
                           !.resultName = outcome.name]
        ELSE [fs[i] EXCEPT !.status = FAILED, !.error = outcome.message]]

codecVars == <<pc, delim, table, data, dump, text, parsed>>

InitApp ==
    /\ pc = "app"
    /\ delim = COMMA
    /\ table = <<>>
    /\ data = Undefined
    /\ dump = <<>>
    /\ text = <<>>
    /\ parsed = Undefined
    /\ NoCall /\ NoScan /\ NoLoader
    /\ files = <<>>
    /\ filesRef = <<>>
    /\ nextId = 0
    /\ tasks = <<>>
    /\ version \in {"App.tsx", "part_005"}

\* handleFileChange: one file is added
AddFile ==
    /\ nextId < MaxFiles
    /\ nextId' = nextId + 1
    /\ files' = Append(files, NewItem(nextId + 1))
    /\ UNCHANGED <<filesRef, tasks, version, codecVars, callVars, scanVars, loaderVars>>

\* useEffect(() => { filesRef.current = files }, [files])
CommitRender ==
    /\ filesRef # files
    /\ filesRef' = files
    /\ UNCHANGED <<files, nextId, tasks, version, codecVars, callVars, scanVars, loaderVars>>

\* onRemove: setFiles(prev => prev.filter(f => f.id !== id))
RemoveFile(id) ==
    /\ \E i \in 1..Len(files) : files[i].id = id
    /\ files' = SelectSeq(files, LAMBDA f : f.id # id)
    /\ UNCHANGED <<filesRef, nextId, tasks, version, codecVars, callVars, scanVars, loaderVars>>

\* processConversion(id) up to its await: the item is looked up in
\* filesRef.current and the call returns when it is not there (in part_005
\* also when it is PROCESSING); else the item is set to PROCESSING and the
\* converter is started
ProcessConversion(id) ==
    /\ Len(tasks) < MaxCalls
    /\ \E i \in 1..Len(filesRef) :
          /\ filesRef[i].id = id
          /\ version = "part_005" => filesRef[i].status # PROCESSING
    /\ files' = setProcessing(files, id)
    /\ tasks' = Append(tasks, [id |-> id, pending |-> TRUE])
    /\ UNCHANGED <<filesRef, nextId, version, codecVars, callVars, scanVars, loaderVars>>

\* the converter's promise of call c settles and processConversion resumes
Settle(c) ==
    /\ c \in 1..Len(tasks)
    /\ tasks[c].pending
    /\ \E outcome \in Outcomes : files' = settleUpdate(files, tasks[c].id, outcome)
    /\ tasks' = [tasks EXCEPT ![c].pending = FALSE]
    /\ UNCHANGED <<filesRef, nextId, version, codecVars, callVars, scanVars, loaderVars>>

Ids == 1..MaxFiles
NextApp ==
    \/ AddFile
    \/ CommitRender
    \/ \E id \in Ids : RemoveFile(id)
    \/ \E id \in Ids : ProcessConversion(id)
    \/ \E c \in 1..MaxCalls : Settle(c)

SpecApp == InitApp /\ [][NextApp]_vars

\* every converter's promise settles
SpecAppLive == SpecApp /\ \A c \in 1..MaxCalls : WF_vars(Settle(c))

InList(id) == \E i \in 1..Len(files) : files[i].id = id
ItemOf(id) == files[CHOOSE i \in 1..Len(files) : files[i].id = id]
IdsOf(fs) == {fs[i].id : i \in 1..Len(fs)}
\* the item has reached an end of its life cycle
Finished(id) ==
    \/ /\ ItemOf(id).status = COMPLETED
       /\ ItemOf(id).resultUrl # Undefined /\ ItemOf(id).resultName # Undefined
    \/ ItemOf(id).status = FAILED /\ ItemOf(id).error # Undefined

\* C29: the life cycle of a file item.  Once processConversion(id) has set an
\* item to PROCESSING, and the converter's promise settles, the item is
\* eventually either no longer in the list, or COMPLETED with resultUrl and
\* resultName set, or FAILED with an error set;
\* the update made when a call settles changes the status of an item of the
\* list only from PROCESSING, COMPLETED or FAILED, and puts no item back.
C29_Lifecycle ==
    /\ \A id \in Ids :
          (InList(id) /\ ItemOf(id).status = PROCESSING) ~> (~InList(id) \/ Finished(id))
    /\ [][(\E c \in 1..Len(tasks) : tasks[c].pending /\ ~tasks'[c].pending) =>
              /\ IdsOf(files') = IdsOf(files)
              /\ Len(files') = Len(files)]_vars

\* C29 witness: the item was removed while two conversions of it ran, both
\* have settled, and the list is still empty
C29_Witness ==
    /\ pc = "app"
    /\ nextId = 1 /\ files = <<>>
    /\ Len(tasks) = 2 /\ tasks[1].id = 1 /\ ~tasks[1].pending /\ ~tasks[2].pending

\* C29 witness of the other case: the item is FAILED with the message of an
\* Error after its conversion was rejected
C29_WitnessFailed ==
    /\ pc = "app"
    /\ Len(files) = 1 /\ files[1].status = FAILED /\ files[1].error = Str(<<"m">>)
    /\ Len(tasks) = 1 /\ ~tasks[1].pending

(***************************************************************************)
(* The script loader: loadScript and the load and error events of the      *)
(* script elements it appends.                                             *)
(***************************************************************************)
ScriptKeys == {"jsyaml", "xlsx"}
\* no load of the key is in flight: loadingScripts[key] is undefined
NoPromise == Undefined
\* Promise.resolve(): a new promise, already resolved
ResolvedPromise == [t |-> "resolved"]
\* the promise made with script element i
PromiseOf(i) == [t |-> "promise", element |-> i]

\* script.onerror without the delete: the entry of the key stays
afterErrorKeep(loading, key) == loading

\* delete loadingScripts[key]
afterError(loading, key) == [loading EXCEPT ![key] = NoPromise]

InitLoader ==
    /\ pc = "loader"
    /\ delim = COMMA
    /\ table = <<>>
    /\ data = Undefined
    /\ dump = <<>>
    /\ text = <<>>
    /\ parsed = Undefined
    /\ NoCall /\ NoScan /\ NoApp
    /\ loadedScripts = {}
    /\ loadingScripts = [k \in ScriptKeys |-> NoPromise]
    /\ head = <<>>
    /\ returned = <<>>

\* loadScript(key)
LoadScript(key) ==
    /\ IF key \in loadedScripts
       THEN /\ returned' = <<key, ResolvedPromise>>
            /\ UNCHANGED <<loadedScripts, loadingScripts, head>>
       ELSE IF loadingScripts[key] # NoPromise
       THEN /\ returned' = <<key, loadingScripts[key]>>
            /\ UNCHANGED <<loadedScripts, loadingScripts, head>>
       ELSE /\ Len(head) < MaxScripts
            /\ head' = Append(head, [key |-> key, state |-> "pending"])
            /\ loadingScripts' = [loadingScripts EXCEPT ![key] = PromiseOf(Len(head) + 1)]
            /\ returned' = <<key, PromiseOf(Len(head) + 1)>>
            /\ UNCHANGED loadedScripts
    /\ UNCHANGED <<codecVars, callVars, scanVars, appVars>>

\* script.onload of element i
OnLoad(i) ==
    /\ i \in 1..Len(head)
    /\ head[i].state = "pending"
    /\ head' = [head EXCEPT ![i].state = "loaded"]
    /\ loadedScripts' = loadedScripts \cup {head[i].key}
    /\ loadingScripts' = [loadingScripts EXCEPT ![head[i].key] = NoPromise]
    /\ UNCHANGED <<returned, codecVars, callVars, scanVars, appVars>>

\* script.onerror of element i
OnError(i) ==
    /\ i \in 1..Len(head)
    /\ head[i].state = "pending"
    /\ head' = [head EXCEPT ![i].state = "failed"]
    /\ loadingScripts' = afterError(loadingScripts, head[i].key)
    /\ UNCHANGED <<loadedScripts, returned, codecVars, callVars, scanVars, appVars>>

NextLoader ==
    \/ \E key \in ScriptKeys : LoadScript(key)
    \/ \E i \in 1..MaxScripts : OnLoad(i)
    \/ \E i \in 1..MaxScripts : OnError(i)

SpecLoader == InitLoader /\ [][NextLoader]_vars

\* the elements of a key that are in a given state
ElementsOf(key, state) == {i \in 1..Len(head) : head[i].key = key /\ head[i].state = state}
\* the step is a call of loadScript(key) that is not a stuttering step
IsCall(key) == returned' # returned /\ returned'[1] = key
Appends == Len(head') = Len(head) + 1

\* C30: the script loader.  Under any interleaving of loadScript calls with
\* the load and error events of the elements, at most one element per key is
\* pending; a call made while a load of the key is in flight returns the
\* promise of that load and appends nothing; no element is appended for a key
\* that has loaded; and a call made after a failed load, with none in flight,
\* appends a new element.
C30_ScriptLoader ==
    /\ [](pc = "loader" => \A key \in ScriptKeys : Cardinality(ElementsOf(key, "pending")) <= 1)
    /\ [][\A key \in ScriptKeys :
            /\ (Appends /\ head'[Len(head')].key = key) =>
                  /\ ElementsOf(key, "loaded") = {}
                  /\ ElementsOf(key, "pending") = {}
            /\ (IsCall(key) /\ ElementsOf(key, "pending") # {}) =>
                  /\ head' = head
                  /\ returned'[2] \in {PromiseOf(i) : i \in ElementsOf(key, "pending")}
            /\ (IsCall(key) /\ ElementsOf(key, "loaded") # {}) =>
                  /\ head' = head
                  /\ returned'[2] = ResolvedPromise
            /\ (IsCall(key) /\ Len(head) < MaxScripts
                    /\ ElementsOf(key, "loaded") = {} /\ ElementsOf(key, "pending") = {}
                    /\ ElementsOf(key, "failed") # {}) =>
                  /\ Appends
                  /\ head'[Len(head')] = [key |-> key, state |-> "pending"]
                  /\ returned'[2] = PromiseOf(Len(head'))]_vars

\* C30 witness: after a failed load of jsyaml a second element was appended
\* for it and has loaded, and the last call got the resolved promise
C30_Witness ==
    /\ pc = "loader"
    /\ Len(head) = 2
    /\ head[1] = [key |-> "jsyaml", state |-> "failed"]
    /\ head[2] = [key |-> "jsyaml", state |-> "loaded"]
    /\ returned = <<"jsyaml", ResolvedPromise>>

====
